---- MODULE Spec2Model ----
(***************************************************************************)
(* The protocol client engine of irc_tester: the message codec             *)
(* (irc_tester/message.py) and the User connection with its stream framer, *)
(* keepalive responder and timed receive primitives (irc_tester/user.py).  *)
(*                                                                         *)
(* Text is a sequence of one-character strings.  The byte stream of the    *)
(* server is a sequence of bytes: an ASCII byte is written as its          *)
(* character, the two bytes of the UTF-8 encoding of U+00E9 are "xC3" and  *)
(* "xA9".  Time is a clock of ticks of half a second.                      *)
(***************************************************************************)
EXTENDS Integers, Sequences, FiniteSets, TLC

(***************************************************************************)
(* Bounds of the model.                                                    *)
(***************************************************************************)
MaxDuration == 3     \* the longest timeout given to receive_until and collect, in ticks
MaxConnects == 2     \* connect() calls (successful or not) in one behaviour
SegmentSize == 3     \* bytes of a read that does not deliver all that is on its way
MaxLineLen == 4      \* characters of a line given to IRCMessage.parse
MaxTests == 2        \* entries of the list get_tests returns

(***************************************************************************)
(* Program constants, in ticks of half a second.                           *)
(***************************************************************************)
UntilSlice == 2      \* min(remaining, 1.0) in receive_until
CollectSlice == 1    \* min(remaining, 0.5) in collect
AuthDeadline == 20   \* timeout=10 of the receive_until in authenticate

(***************************************************************************)
(* Text helpers: the str methods the code uses.                            *)
(***************************************************************************)
CR == "\r"
LF == "\n"

\* str.isspace() on the characters of the model's alphabet
IsSpace(c) == c \in {" ", "\t", CR, LF}

\* str.upper() on one character
LowerCase == <<"a", "b", "c", "d", "e", "f", "g", "h", "i", "j", "k", "l", "m",
               "n", "o", "p", "q", "r", "s", "t", "u", "v", "w", "x", "y", "z", "U+00E9">>
UpperCase == <<"A", "B", "C", "D", "E", "F", "G", "H", "I", "J", "K", "L", "M",
               "N", "O", "P", "Q", "R", "S", "T", "U", "V", "W", "X", "Y", "Z", "U+00C9">>
Upper(c) ==
    IF \E i \in 1..Len(LowerCase) : LowerCase[i] = c
    THEN UpperCase[CHOOSE i \in 1..Len(LowerCase) : LowerCase[i] = c]
    ELSE c

UpperStr(s) == [i \in 1..Len(s) |-> Upper(s[i])]

\* s[i:] with i a 0-based index, as in Python
From(s, i) == SubSeq(s, i + 1, Len(s))

\* s[i:j] with 0-based indices
Slice(s, i, j) == SubSeq(s, i + 1, j)

\* whether pat occurs in s at 0-based index i
MatchAt(s, pat, i) ==
    /\ i + Len(pat) <= Len(s)
    /\ \A k \in 1..Len(pat) : s[i + k] = pat[k]

\* s.find(pat, start): the least 0-based index >= start where pat occurs, or -1
Find(s, pat, start) ==
    LET hits == {i \in start..(Len(s) - Len(pat)) : MatchAt(s, pat, i)}
    IN  IF hits = {} THEN -1 ELSE CHOOSE i \in hits : \A j \in hits : i <= j

\* str.strip(): leading and trailing whitespace removed
Strip(s) ==
    LET keep == {i \in 1..Len(s) : ~IsSpace(s[i])}
    IN  IF keep = {} THEN <<>>
        ELSE LET lo == CHOOSE i \in keep : \A j \in keep : i <= j
                 hi == CHOOSE i \in keep : \A j \in keep : i >= j
             IN  SubSeq(s, lo, hi)

\* str.split(): the maximal runs of non-whitespace characters, in order
RECURSIVE Split(_)
Split(s) ==
    LET keep == {i \in 1..Len(s) : ~IsSpace(s[i])}
    IN  IF keep = {} THEN <<>>
        ELSE LET lo == CHOOSE i \in keep : \A j \in keep : i <= j
                 ends == {i \in lo..Len(s) : i = Len(s) \/ IsSpace(s[i + 1])}
                 hi == CHOOSE i \in ends : \A j \in ends : i <= j
             IN  <<SubSeq(s, lo, hi)>> \o Split(SubSeq(s, hi + 1, Len(s)))

(***************************************************************************)
(* Message codec (irc_tester/message.py).                                  *)
(***************************************************************************)
\* a decomposition that looks for "@" before it looks for "!"
ParsePrefix_atFirst(prefix) ==
    LET bang == Find(prefix, <<"!">>, 0)
        at == Find(prefix, <<"@">>, 0)
    IN  IF at # -1
        THEN [nick |-> Slice(prefix, 0, at), user |-> <<>>, host |-> From(prefix, at + 1)]
        ELSE IF bang # -1
        THEN [nick |-> Slice(prefix, 0, bang), user |-> From(prefix, bang + 1), host |-> <<>>]
        ELSE [nick |-> prefix, user |-> <<>>, host |-> <<>>]

\* IRCMessage._parse_prefix: nick, user and host of a prefix
ParsePrefix(prefix) ==
    LET bang == Find(prefix, <<"!">>, 0)
        at == Find(prefix, <<"@">>, 0)
    IN  IF bang # -1
        THEN LET rest == From(prefix, bang + 1)
                 rat == Find(rest, <<"@">>, 0)
             IN  IF rat # -1
                 THEN [nick |-> Slice(prefix, 0, bang), user |-> Slice(rest, 0, rat),
                       host |-> From(rest, rat + 1)]
                 ELSE [nick |-> Slice(prefix, 0, bang), user |-> rest, host |-> <<>>]
        ELSE IF at # -1
        THEN [nick |-> Slice(prefix, 0, at), user |-> <<>>, host |-> From(prefix, at + 1)]
        ELSE [nick |-> prefix, user |-> <<>>, host |-> <<>>]

\* IRCMessage.__init__, p being the nick, user and host of the prefix
WithPrefix(raw, prefix, command, params, p) ==
    [raw |-> raw, prefix |-> prefix, nick |-> p.nick, user |-> p.user,
     host |-> p.host, command |-> command, params |-> params]

IRCMessage(raw, prefix, command, params) ==
    WithPrefix(raw, prefix, command, params,
               IF prefix # <<>> THEN ParsePrefix(prefix)
               ELSE [nick |-> <<>>, user |-> <<>>, host |-> <<>>])

\* the end of IRCMessage.parse: the command is popped off the front of
\* params and uppercased
\* a parse that keeps the verb as it is written on the line
PopCommand_asWritten(raw, prefix, params) ==
    IF params # <<>>
    THEN IRCMessage(raw, prefix, Head(params), Tail(params))
    ELSE IRCMessage(raw, prefix, <<>>, <<>>)

PopCommand(raw, prefix, params) ==
    IF params # <<>>
    THEN IRCMessage(raw, prefix, UpperStr(Head(params)), Tail(params))
    ELSE IRCMessage(raw, prefix, <<>>, <<>>)

\* a parse that knows no trailing parameter and splits the whole line
ParseParams_noTrailing(line, prefix, idx, trailing_idx) ==
    PopCommand(line, prefix, Split(From(line, idx)))

\* IRCMessage.parse from the trailing parameter on: trailing_idx is where
\* the first " :" at or after idx is
ParseParams(line, prefix, idx, trailing_idx) ==
    IF trailing_idx # -1
    THEN PopCommand(line, prefix,
                    Append(Split(Slice(line, idx, trailing_idx)),
                           From(line, trailing_idx + 2)))
    ELSE PopCommand(line, prefix, Split(From(line, idx)))

\* a parse that does not stop at a prefix without a space behind it
ParsePrefixed_noStop(line, space) ==
    ParseParams(line, Slice(line, 1, space), space + 1,
                Find(line, <<" ", ":">>, space + 1))

\* IRCMessage.parse of a line that starts with ":", space being where its
\* first space is
ParsePrefixed(line, space) ==
    IF space = -1
    THEN IRCMessage(line, From(line, 1), <<>>, <<>>)
    ELSE ParseParams(line, Slice(line, 1, space), space + 1,
                     Find(line, <<" ", ":">>, space + 1))

\* IRCMessage.parse
Parse(line) ==
    IF line = <<>> THEN IRCMessage(<<>>, <<>>, <<>>, <<>>)
    ELSE IF line[1] = ":" THEN ParsePrefixed(line, Find(line, <<" ">>, 0))
    ELSE ParseParams(line, <<>>, 0, Find(line, <<" ", ":">>, 0))

(***************************************************************************)
(* UTF-8 on the model's alphabet.                                          *)
(***************************************************************************)
Lead2 == {"xC3"}          \* first byte of a two-byte character
Cont == {"xA9"}           \* continuation byte
Replacement == "U+FFFD"

\* bytes.decode("utf-8", errors="replace"): a lead byte with its continuation
\* is one character, a lead byte without one and a continuation byte without
\* a lead byte are one replacement character each
RECURSIVE Decode(_)
Decode(data) ==
    IF data = <<>> THEN <<>>
    ELSE IF Head(data) \in Lead2
    THEN IF Len(data) >= 2 /\ data[2] \in Cont
         THEN <<"U+00E9">> \o Decode(From(data, 2))
         ELSE <<Replacement>> \o Decode(Tail(data))
    ELSE IF Head(data) \in Cont
    THEN <<Replacement>> \o Decode(Tail(data))
    ELSE <<Head(data)>> \o Decode(Tail(data))

\* str.encode("utf-8")
RECURSIVE Encode(_)
Encode(text) ==
    IF text = <<>> THEN <<>>
    ELSE (CASE Head(text) = "U+00E9" -> <<"xC3", "xA9">>
            [] Head(text) = "U+00C9" -> <<"xC3", "x89">>
            [] Head(text) = Replacement -> <<"xEF", "xBF", "xBD">>
            [] OTHER -> <<Head(text)>>) \o Encode(Tail(text))

(***************************************************************************)
(* The socket as the User sees it.  link is the state of the TCP           *)
(* connection behind the socket the User holds:                            *)
(*   "none"        no socket                                               *)
(*   "fresh"       a socket whose connect() failed                         *)
(*   "established" open in both directions                                 *)
(*   "peerclosed"  the peer has closed its side: reads drain, then end     *)
(*   "reset"       the connection is broken: queued data can still be      *)
(*                 read, then reads fail; every send fails                 *)
(***************************************************************************)
None == 0                 \* self._socket = None
RecvSize == 4096          \* self._socket.recv(4096)
CRLF == <<CR, LF>>

\* socket.sendall succeeds
CanSend(link) == link \in {"established", "peerclosed"}

\* a send_raw that drops the line of a User that is not connected
send_raw_silent(socket, connected, link, message) ==
    IF ~connected \/ socket = None \/ ~CanSend(link)
    THEN [message |-> message, raised |-> "none", data |-> <<>>]
    ELSE [message |-> message, raised |-> "none", data |-> Encode(message \o CRLF)]

\* User.send_raw: the exception it raises ("none" when it returns) and the
\* bytes it puts on the wire
send_raw(socket, connected, link, message) ==
    IF ~connected \/ socket = None
    THEN [message |-> message, raised |-> "ConnectionError", data |-> <<>>]
    ELSE IF CanSend(link)
    THEN [message |-> message, raised |-> "none", data |-> Encode(message \o CRLF)]
    ELSE [message |-> message, raised |-> "OSError", data |-> <<>>]

PING == <<"P", "I", "N", "G">>
PONG == <<"P", "O", "N", "G">>

\* f"PONG :{token}"
PongLine(token) == PONG \o <<" ", ":">> \o token

\* a keepalive that answers with an empty token whatever the PING carries
Keepalive_noToken(msg, socket, connected, link) ==
    IF msg.command = PING
    THEN <<send_raw(socket, connected, link, PongLine(<<>>))>>
    ELSE <<>>

\* the keepalive branch of User._flush_buffer: the send_raw calls made for
\* one parsed message (their exceptions are swallowed)
Keepalive(msg, socket, connected, link) ==
    IF msg.command = PING
    THEN LET token == IF msg.params # <<>> THEN msg.params[1] ELSE <<>>
         IN  <<send_raw(socket, connected, link, PongLine(token))>>
    ELSE <<>>

(***************************************************************************)
(* Registration and the command builders.  An optional argument is Absent  *)
(* (None) or Given(value).                                                 *)
(***************************************************************************)
PASS == <<"P", "A", "S", "S">>
NICK == <<"N", "I", "C", "K">>
USER == <<"U", "S", "E", "R">>
JOIN == <<"J", "O", "I", "N">>
PART == <<"P", "A", "R", "T">>
PRIVMSG == <<"P", "R", "I", "V", "M", "S", "G">>
NOTICE == <<"N", "O", "T", "I", "C", "E">>
KICK == <<"K", "I", "C", "K">>
INVITE == <<"I", "N", "V", "I", "T", "E">>
TOPIC == <<"T", "O", "P", "I", "C">>
MODE == <<"M", "O", "D", "E">>
QUIT == <<"Q", "U", "I", "T">>
Sp == <<" ">>
Colon == <<":">>

Absent == <<>>
Given(value) == <<value>>

\* the truth value of an optional str argument: None and "" are false
Truthy(arg) == arg # Absent /\ arg[1] # <<>>

\* an authenticate that sends NICK before PASS
AuthLines_nickFirst(password, nick_name, username, realname) ==
    << NICK \o Sp \o nick_name,
       PASS \o Sp \o password,
       USER \o Sp \o username \o Sp \o <<"0">> \o Sp \o <<"*">> \o Sp \o Colon \o realname >>

\* the lines of User.authenticate, in the order it sends them
AuthLines(password, nick_name, username, realname) ==
    << PASS \o Sp \o password,
       NICK \o Sp \o nick_name,
       USER \o Sp \o username \o Sp \o <<"0">> \o Sp \o <<"*">> \o Sp \o Colon \o realname >>

\* the numeric User.authenticate waits for
Welcome == <<"0", "0", "1">>

\* the send_raw calls of a sequence of lines; the connection breaks after
\* the first lasting of them
SendEach(lines, socket, connected, link, lasting) ==
    [i \in 1..Len(lines) |->
        send_raw(socket, connected, IF i <= lasting THEN link ELSE "reset", lines[i])]

\* the calls made of a sequence of send_raw calls: the first that raises is
\* the last
UpToRaise(sends) ==
    LET bad == {i \in 1..Len(sends) : sends[i].raised # "none"}
    IN  IF bad = {} THEN sends
        ELSE SubSeq(sends, 1, CHOOSE i \in bad : \A j \in bad : i <= j)

\* an authenticate that raises when the welcome does not come
AuthReturn_raises(all_msgs, welcome) ==
    [raised |-> IF welcome = <<>> THEN "TimeoutError" ELSE "none",
     ok |-> welcome # <<>>, msgs |-> all_msgs]

\* what User.authenticate returns from what receive_until returned
AuthReturn(all_msgs, welcome) ==
    [raised |-> "none", ok |-> welcome # <<>>, msgs |-> all_msgs]

\* the line of User.nick
NickLine(new_nickname) == NICK \o Sp \o new_nickname

\* a nick that leaves the nickname for the server's reply to set
nick_awaitsReply(old, new_nickname, sent) ==
    [nickname |-> old, raised |-> sent.raised,
     old |-> IF sent.raised # "none" THEN <<>> ELSE old]

\* a nick that assigns the nickname before it sends
nick_assignsFirst(old, new_nickname, sent) ==
    IF sent.raised # "none"
    THEN [nickname |-> new_nickname, raised |-> sent.raised, old |-> <<>>]
    ELSE [nickname |-> new_nickname, raised |-> "none", old |-> old]

\* User.nick after its send_raw: the exception propagates before the
\* assignment; otherwise the nickname is replaced and the old one returned
nick(old, new_nickname, sent) ==
    IF sent.raised # "none"
    THEN [nickname |-> old, raised |-> sent.raised, old |-> <<>>]
    ELSE [nickname |-> new_nickname, raised |-> "none", old |-> old]

\* the line each of the other builders gives to send_raw
join(channel, key) ==
    IF Truthy(key) THEN JOIN \o Sp \o channel \o Sp \o key[1]
    ELSE JOIN \o Sp \o channel

part(channel, reason) ==
    IF Truthy(reason) THEN PART \o Sp \o channel \o Sp \o Colon \o reason[1]
    ELSE PART \o Sp \o channel

privmsg(target, message) == PRIVMSG \o Sp \o target \o Sp \o Colon \o message

notice(target, message) == NOTICE \o Sp \o target \o Sp \o Colon \o message

kick(channel, target, reason) ==
    IF Truthy(reason) THEN KICK \o Sp \o channel \o Sp \o target \o Sp \o Colon \o reason[1]
    ELSE KICK \o Sp \o channel \o Sp \o target

invite(nick_name, channel) == INVITE \o Sp \o nick_name \o Sp \o channel

\* a topic that treats an empty topic as no topic
topic_whenTruthy(channel, new_topic) ==
    IF Truthy(new_topic) THEN TOPIC \o Sp \o channel \o Sp \o Colon \o new_topic[1]
    ELSE TOPIC \o Sp \o channel

topic(channel, new_topic) ==
    IF new_topic # Absent THEN TOPIC \o Sp \o channel \o Sp \o Colon \o new_topic[1]
    ELSE TOPIC \o Sp \o channel

mode(target, flags, params) ==
    IF flags = Absent THEN MODE \o Sp \o target
    ELSE IF Truthy(params) THEN MODE \o Sp \o target \o Sp \o flags[1] \o Sp \o params[1]
    ELSE MODE \o Sp \o target \o Sp \o flags[1]

quit(message) ==
    IF Truthy(message) THEN QUIT \o Sp \o Colon \o message[1]
    ELSE QUIT

ping(token) == PING \o Sp \o Colon \o token

\* one turn of the while loop of User._flush_buffer: the line cut off the
\* buffer, stripped, is skipped when empty, parsed and answered otherwise;
\* rest is what the later turns give
FlushLine(line, rest, socket, connected, link) ==
    IF line = <<>> THEN rest
    ELSE [buffer |-> rest.buffer,
          msgs |-> <<Parse(line)>> \o rest.msgs,
          sends |-> Keepalive(Parse(line), socket, connected, link) \o rest.sends]

\* User._flush_buffer: the buffer left, the messages extracted and the
\* send_raw calls made; at is where the first CRLF of the buffer is
RECURSIVE FlushFrom(_, _, _, _, _)
FlushFrom(buffer, at, socket, connected, link) ==
    IF at = -1
    THEN [buffer |-> buffer, msgs |-> <<>>, sends |-> <<>>]
    ELSE FlushLine(Strip(Slice(buffer, 0, at)),
                   FlushFrom(From(buffer, at + 2), Find(From(buffer, at + 2), CRLF, 0),
                             socket, connected, link),
                   socket, connected, link)

\* a framer for which a lone LF ends a line
RECURSIVE FlushAtLF(_, _, _, _, _)
FlushAtLF(buffer, at, socket, connected, link) ==
    IF at = -1
    THEN [buffer |-> buffer, msgs |-> <<>>, sends |-> <<>>]
    ELSE FlushLine(Strip(Slice(buffer, 0, at)),
                   FlushAtLF(From(buffer, at + 1), Find(From(buffer, at + 1), <<LF>>, 0),
                             socket, connected, link),
                   socket, connected, link)

_flush_buffer_atLF(buffer, socket, connected, link) ==
    FlushAtLF(buffer, Find(buffer, <<LF>>, 0), socket, connected, link)

\* a framer that takes one line off the buffer and leaves the others
_flush_buffer_oneLine(buffer, socket, connected, link) ==
    IF Find(buffer, CRLF, 0) = -1
    THEN [buffer |-> buffer, msgs |-> <<>>, sends |-> <<>>]
    ELSE FlushLine(Strip(Slice(buffer, 0, Find(buffer, CRLF, 0))),
                   [buffer |-> From(buffer, Find(buffer, CRLF, 0) + 2),
                    msgs |-> <<>>, sends |-> <<>>],
                   socket, connected, link)

_flush_buffer(buffer, socket, connected, link) ==
    FlushFrom(buffer, Find(buffer, CRLF, 0), socket, connected, link)

\* what self._socket.recv can do on a socket in state link, with the bytes
\* inflight on their way and the timeout set: deliver a non-empty prefix of
\* them (of one of the lengths sizes, at most RecvSize), time out, report
\* end of stream (b""), or raise an OSError (BlockingIOError, an OSError
\* that is not socket.timeout, when the timeout is 0 and nothing is there)
Chunks(inflight, sizes) ==
    {[kind |-> "data", data |-> SubSeq(inflight, 1, k)] :
        k \in {n \in sizes : 1 <= n /\ n <= Len(inflight) /\ n <= RecvSize}}

NetOutcomes(link, inflight, timeout, sizes) ==
    CASE link = "established" ->
            Chunks(inflight, sizes) \cup
            (IF timeout = 0 THEN {[kind |-> "wouldblock", data |-> <<>>]}
                            ELSE {[kind |-> "timeout", data |-> <<>>]})
      [] link = "peerclosed" ->
            IF inflight # <<>> THEN Chunks(inflight, sizes)
            ELSE {[kind |-> "eof", data |-> <<>>]}
      [] link = "reset" ->
            IF inflight # <<>> THEN Chunks(inflight, sizes)
            ELSE {[kind |-> "oserror", data |-> <<>>]}
      [] OTHER -> {[kind |-> "oserror", data |-> <<>>]}

\* a peer-close branch that forgets to clear the flag
OnPeerClose_keepsFlag(connected) == connected

\* the branch of User.receive taken when recv returns b"" (peer close)
OnPeerClose(connected) == FALSE

\* the branch of User.receive taken on OSError
OnOSError(connected) == FALSE

\* the branch of User.receive taken on socket.timeout
OnTimeout(connected) == connected

\* the fields and the return value of one receive call: the batch, the
\* sends made, the exception raised and whether recv was called
Outcome(connected, flushed, raised, read) ==
    [connected |-> connected, buffer |-> flushed.buffer, msgs |-> flushed.msgs,
     sends |-> flushed.sends, raised |-> raised, read |-> read]

\* the buffer of a flush, nothing extracted from it
Kept(flushed) == [buffer |-> flushed.buffer, msgs |-> <<>>, sends |-> <<>>]

\* a receive that returns what its first flush gave and never reads
AfterFlush_skipsRead(first, socket, connected, link, net) ==
    Outcome(connected, first, "none", FALSE)

\* User.receive after its first _flush_buffer, the network answering net
AfterFlush(first, socket, connected, link, net) ==
    IF first.msgs # <<>>
    THEN Outcome(connected, first, "none", FALSE)
    ELSE IF socket = None
    THEN Outcome(connected, Kept(first), "AttributeError", FALSE)
    ELSE CASE net.kind = "data" ->
                Outcome(connected,
                        _flush_buffer(first.buffer \o Decode(net.data),
                                      socket, connected, link),
                        "none", TRUE)
           [] net.kind = "eof" ->
                Outcome(OnPeerClose(connected), Kept(first), "none", TRUE)
           [] net.kind = "timeout" ->
                Outcome(OnTimeout(connected), Kept(first), "none", TRUE)
           [] OTHER ->
                Outcome(OnOSError(connected), Kept(first), "none", TRUE)

\* User.receive with the network answering net
receive(socket, connected, buffer, link, net) ==
    AfterFlush(_flush_buffer(buffer, socket, connected, link),
               socket, connected, link, net)

\* commands of receive_until: a str is one command name, anything else is
\* made a set
\* a target set built as set(commands) whatever the argument is: a string
\* gives the set of its characters
TargetSet_ofCharacters(commands) ==
    IF commands.isStr THEN {<<commands.value[i]>> : i \in 1..Len(commands.value)}
    ELSE {commands.value[i] : i \in 1..Len(commands.value)}

TargetSet(commands) ==
    IF commands.isStr THEN {commands.value}
    ELSE {commands.value[i] : i \in 1..Len(commands.value)}

\* a scan without the early return: the whole batch is accumulated and the
\* last message with a target command is the match
RECURSIVE ScanBatch_lastMatch(_, _, _)
ScanBatch_lastMatch(all_msgs, batch, targets) ==
    IF batch = <<>> THEN [all_msgs |-> all_msgs, match |-> <<>>]
    ELSE LET rest == ScanBatch_lastMatch(Append(all_msgs, Head(batch)), Tail(batch), targets)
         IN  IF rest.match = <<>> /\ Head(batch).command \in targets
             THEN [all_msgs |-> rest.all_msgs, match |-> <<Head(batch)>>]
             ELSE rest

\* the for loop of User.receive_until over one batch: the list accumulated
\* and the match that ends the call, if any
RECURSIVE ScanBatch(_, _, _)
ScanBatch(all_msgs, batch, targets) ==
    IF batch = <<>> THEN [all_msgs |-> all_msgs, match |-> <<>>]
    ELSE IF Head(batch).command \in targets
    THEN [all_msgs |-> Append(all_msgs, Head(batch)), match |-> <<Head(batch)>>]
    ELSE ScanBatch(Append(all_msgs, Head(batch)), Tail(batch), targets)

\* a collect that puts each batch in front of its list
Extend_front(all_msgs, batch) == batch \o all_msgs

\* all_msgs.extend(batch) in User.collect
Extend(all_msgs, batch) == all_msgs \o batch

\* a loop test that never ends the loop
LoopEnds_never(end_time, time) == FALSE

\* a loop test that gives up one tick before the deadline
LoopEnds_early(end_time, time) == end_time - time <= 1

\* a loop test that lets the loop go on when nothing remains
LoopEnds_late(end_time, time) == end_time - time < 0

\* the loop test of receive_until and collect: remaining <= 0 ends the loop
LoopEnds(end_time, time) == end_time - time <= 0

\* min(remaining, slice)
Min(a, b) == IF a < b THEN a ELSE b

(***************************************************************************)
(* Inputs.                                                                 *)
(***************************************************************************)
\* the byte streams a server sends in one session
Scripts ==
    { PING \o <<" ", ":", "t">> \o CRLF \o <<"A">> \o CRLF,
      <<"xC3", "xA9">> \o CRLF,
      <<"p", "i", "n", "g">> \o CRLF \o <<" ">> \o CRLF \o <<"A">>,
      Welcome \o CRLF \o PING \o CRLF }

\* the timeout arguments of receive, and the durations of receive_until and
\* collect, in ticks
Timeouts == {0, 1, 2}
Durations == -1..MaxDuration

\* the lines given to IRCMessage.parse directly: every line of at most
\* MaxLineLen characters of a small alphabet, and lines of src/test_parser.py
\* and of their kind; a call is given the line before it with one more
\* character, the empty line or a test line
Alphabet == {":", " ", "a", "B", "!", "@"}
TestLines ==
    { <<":", "o", "p", " ", "K", "I", "C", "K", " ", "#", "c", "h", "a", "n",
        " ", "t", "a", "r", "g", "e", "t", " ", ":", "y", "o", "u", " ",
        "a", "r", "e", " ", "k", "i", "c", "k", "e", "d">>,
      <<":", "s", "e", "r", "v", "e", "r", " ", "0", "0", "1", " ", "n", "i",
        "c", "k", " ", ":", "W", "e", "l", "c", "o", "m", "e", " ", "t",
        "o", " ", "I", "R", "C">>,
      <<"P", "I", "N", "G", " ", ":", "t", "o", "k", "e", "n", "1", "2", "3">>,
      <<":", "o", "p", " ", "M", "O", "D", "E", " ", "#", "c", "h", "a", "n",
        " ", "+", "o", " ", "u", "s", "e", "r">>,
      <<":", "p", " ", " ", ":", "a", " ", "b">>,
      <<":", "a", "l", "i", "c", "e", "!", "a", "u", "s", "e", "r", "@", "a",
        "h", "o", "s", "t", " ", "P", "R", "I", "V", "M", "S", "G", " ",
        "#", "t", "e", "s", "t", " ", ":", "H", "e", "l", "l", "o", " ",
        "w", "o", "r", "l", "d">>,
      <<":", "a", "@", "h", "!", "u", " ", "x">>,
      <<":", "p", " ", "a", " ", " ", ":", "b", " ", "c">> }
Lines(last) ==
    {Append(last, c) : c \in IF Len(last) < MaxLineLen THEN Alphabet ELSE {}}
        \cup TestLines \cup {<<>>}

\* the nickname the User is made with
InitialNickname == <<"n">>

\* the other constructor arguments; realname is left out, so it is the
\* nickname the User is made with
Password == <<"p">>
Username == <<"u">>
Realname == InitialNickname

\* the arguments of nick
Nicknames == {<<"n">>, <<"m">>}

\* calls of send_raw and of the command builders other than nick
Channel == <<"#", "c">>
Calls ==
    { [name |-> "send_raw", args |-> <<<<"X">>>>, line |-> <<"X">>],
      [name |-> "join", args |-> <<Channel, Absent>>, line |-> join(Channel, Absent)],
      [name |-> "join", args |-> <<Channel, Given(<<"k">>)>>,
       line |-> join(Channel, Given(<<"k">>))],
      [name |-> "part", args |-> <<Channel, Given(<<"r">>)>>,
       line |-> part(Channel, Given(<<"r">>))],
      [name |-> "privmsg", args |-> <<Channel, <<"h", "i">>>>,
       line |-> privmsg(Channel, <<"h", "i">>)],
      [name |-> "privmsg", args |-> <<Channel, <<"a", CR, LF, "B">>>>,
       line |-> privmsg(Channel, <<"a", CR, LF, "B">>)],
      [name |-> "notice", args |-> <<Channel, <<"h", "i">>>>,
       line |-> notice(Channel, <<"h", "i">>)],
      [name |-> "kick", args |-> <<Channel, <<"m">>, Absent>>,
       line |-> kick(Channel, <<"m">>, Absent)],
      [name |-> "invite", args |-> <<<<"m">>, Channel>>, line |-> invite(<<"m">>, Channel)],
      [name |-> "topic", args |-> <<Channel, Given(<<>>)>>,
       line |-> topic(Channel, Given(<<>>))],
      [name |-> "mode", args |-> <<Channel, Given(<<"+", "o">>), Given(<<"m">>)>>,
       line |-> mode(Channel, Given(<<"+", "o">>), Given(<<"m">>))],
      [name |-> "quit", args |-> <<Absent>>, line |-> quit(Absent)],
      [name |-> "ping", args |-> <<<<"t", "e", "s", "t">>>>,
       line |-> ping(<<"t", "e", "s", "t">>)] }

\* the commands arguments of receive_until
CommandArgs ==
    { [isStr |-> TRUE, value |-> <<"A">>],
      [isStr |-> TRUE, value |-> Welcome],
      [isStr |-> FALSE, value |-> <<<<"A">>, PING>>] }

(***************************************************************************)
(* State.                                                                  *)
(***************************************************************************)
VARIABLES
    socket,      \* self._socket: None, or the number of the connect() that made it
    connected,   \* self._connected
    buffer,      \* self._buffer
    nickname,    \* self.nickname
    link,        \* the state of the connection behind the socket held
    inflight,    \* bytes the server has sent or will send, not yet read
    now,         \* time.time(), in ticks since the last operation was called
    connects,    \* connect() calls so far
    consumed,    \* the bytes read from the socket in this session
    extracted,   \* the messages _flush_buffer produced in this session
    pc,          \* "idle", or the primitive whose loop is running
    frame,       \* the locals of the running receive_until or collect, and
                 \* what the call has done so far
    result,      \* what the last operation returned, and what it did
    suite,       \* the running call of the suite: its locals and what it returned
    line,        \* the argument of the last direct call of IRCMessage.parse
    parsed,      \* what that call returned
    users,       \* two User objects driven by one control thread
    alone,       \* each of the two as it is when only its own calls are made
    returned     \* the last call on one of the two, and what it returned

user == <<socket, connected, buffer, nickname>>
codec == <<line, parsed>>
pair == <<users, alone, returned, suite>>
net == <<link, inflight>>
hist == <<consumed, extracted>>
vars == <<socket, connected, buffer, nickname, link, inflight, now, connects,
          consumed, extracted, pc, frame, result, line, parsed, users, alone,
          returned, suite>>

\* the fields of the User, as an operation finds them
Pre == [socket |-> socket, connected |-> connected, buffer |-> buffer]

\* the frame of a call with duration T: commands, end_time and all_msgs are
\* the locals of the code; seen are the messages the framer extracted during
\* the call, each with whether a send could succeed then, sends the send_raw
\* calls made during it, last the time of the last extraction, closed whether
\* a receive of the call flipped connected to false and late whether recv
\* was called after that; given are the timeouts the call gave to receive,
\* args the arguments of a command builder, was the nickname the operation
\* found and got the bytes the recv of a receive call delivered
Call(T) ==
    [commands |-> {}, end_time |-> T, all_msgs |-> <<>>, T |-> T, pre |-> Pre,
     seen |-> <<>>, sends |-> <<>>, last |-> 0, closed |-> FALSE, late |-> FALSE,
     given |-> {}, args |-> <<>>, was |-> nickname, got |-> <<>>]

NoFrame ==
    [commands |-> {}, end_time |-> 0, all_msgs |-> <<>>, T |-> 0,
     pre |-> [socket |-> None, connected |-> FALSE, buffer |-> <<>>],
     seen |-> <<>>, sends |-> <<>>, last |-> 0, closed |-> FALSE, late |-> FALSE,
     given |-> {}, args |-> <<>>, was |-> <<>>, got |-> <<>>]

\* the record of a finished operation: the exception it raised ("none" when
\* it returned), the list and the match it returned, what the last recv
\* did, the time it took, and the frame's account of the call; ok is the
\* first value authenticate returns and old the value nick returns
Result(op, raised, msgs, match, kind, f, elapsed, steps) ==
    [op |-> op, raised |-> raised, msgs |-> msgs, match |-> match, net |-> kind,
     commands |-> f.commands, pre |-> f.pre, T |-> f.T, seen |-> f.seen, sends |-> f.sends, last |-> f.last,
     closed |-> f.closed, late |-> f.late, elapsed |-> elapsed, steps |-> steps,
     given |-> f.given, args |-> f.args, was |-> f.was, got |-> f.got,
     ok |-> FALSE, old |-> <<>>]

\* no operation has returned since the running one was called
Running == Result("running", "none", <<>>, <<>>, "none", NoFrame, 0, <<>>)

\* User.__init__: a User object with its own fields, and the connection
\* behind its socket
NewUser(name) ==
    [socket |-> None, connected |-> FALSE, buffer |-> <<>>, nickname |-> name,
     link |-> "none", inflight |-> <<>>]

\* the two Users a scenario sets up, with nicknames of their own
Who == {1, 2}
NicknameOf(i) == IF i = 1 THEN InitialNickname ELSE <<"m">>
Users == [i \in Who |-> NewUser(NicknameOf(i))]

\* what a call on one of the two returned: the exception raised, the list
\* returned and the value of nick
Value(raised, msgs, old) == [raised |-> raised, msgs |-> msgs, old |-> old]

Init ==
    /\ socket = None
    /\ connected = FALSE
    /\ buffer = <<>>
    /\ nickname = InitialNickname
    /\ link = "none"
    /\ inflight = <<>>
    /\ now = 0
    /\ connects = 0
    /\ consumed = <<>>
    /\ extracted = <<>>
    /\ pc = "idle"
    /\ frame = NoFrame
    /\ result = Result("init", "none", <<>>, <<>>, "none", NoFrame, 0, <<>>)
    /\ line = <<>>
    /\ parsed = Parse(<<>>)
    /\ users = Users
    /\ alone = Users
    /\ returned = [who |-> 0, op |-> "init", value |-> Value("none", <<>>, <<>>),
                   solo |-> Value("none", <<>>, <<>>)]
    /\ suite = [op |-> "init", at |-> "returned"]

(***************************************************************************)
(* Connection management.                                                  *)
(***************************************************************************)
\* a connect that leaves the buffer as it finds it
AfterConnect_keepsBuffer(pre) == [connected |-> TRUE, buffer |-> pre.buffer]

\* the flag and the buffer a successful User.connect leaves
AfterConnect(pre) == [connected |-> TRUE, buffer |-> <<>>]

\* User.connect, the TCP connect succeeding: a new session begins, in
\* which the server sends one of scripts
ConnectTo(scripts) ==
    /\ pc = "idle"
    /\ connects < MaxConnects
    /\ connects' = connects + 1
    /\ socket' = connects + 1
    /\ connected' = AfterConnect(Pre).connected
    /\ buffer' = AfterConnect(Pre).buffer
    /\ link' = "established"
    /\ inflight' \in scripts
    /\ consumed' = <<>>
    /\ extracted' = <<>>
    /\ now' = 0
    /\ result' = Result("connect", "none", <<>>, <<>>, "none", Call(0), 0, <<>>)
    /\ UNCHANGED <<nickname, pc, frame, codec, pair>>

ConnectOk == ConnectTo(Scripts)

\* User.connect, socket.connect raising: the new socket is already stored
\* in self._socket, the other fields are not reached
ConnectFail ==
    /\ pc = "idle"
    /\ connects < MaxConnects
    /\ connects' = connects + 1
    /\ socket' = connects + 1
    /\ link' = "fresh"
    /\ inflight' = <<>>
    /\ now' = 0
    /\ result' = Result("connect", "OSError", <<>>, <<>>, "none", Call(0), 0, <<>>)
    /\ UNCHANGED <<connected, buffer, nickname, hist, pc, frame, codec, pair>>

\* the fields of a User that holds no connection
Disconnected == [socket |-> None, connected |-> FALSE, buffer |-> <<>>]

\* a disconnect that forgets to empty the buffer
AfterDisconnect_keepsTail(pre) == [Disconnected EXCEPT !.buffer = pre.buffer]

\* the fields User.disconnect leaves, whatever it found
AfterDisconnect(pre) == Disconnected

QuitLeaving == <<"Q", "U", "I", "T", " ", ":", "L", "e", "a", "v", "i", "n", "g">>

\* a disconnect that gives up at the first step that fails
DisconnectSteps_stopsAtFailure(sock, conn, lnk, shutdownFails, closeFails) ==
    IF sock = None THEN <<>>
    ELSE IF send_raw(sock, conn, lnk, QuitLeaving).raised # "none"
    THEN << [step |-> "quit", failed |-> TRUE] >>
    ELSE IF shutdownFails
    THEN << [step |-> "quit", failed |-> FALSE], [step |-> "shutdown", failed |-> TRUE] >>
    ELSE << [step |-> "quit", failed |-> FALSE],
            [step |-> "shutdown", failed |-> FALSE],
            [step |-> "close", failed |-> closeFails] >>

\* the steps of User.disconnect: none without a socket; with one, the QUIT
\* send_raw, then shutdown, then close, whose failures are swallowed
DisconnectSteps(sock, conn, lnk, shutdownFails, closeFails) ==
    IF sock = None THEN <<>>
    ELSE << [step |-> "quit", failed |-> send_raw(sock, conn, lnk, QuitLeaving).raised # "none"],
            [step |-> "shutdown", failed |-> shutdownFails],
            [step |-> "close", failed |-> closeFails] >>

\* the send_raw calls of User.disconnect
DisconnectSends(sock, conn, lnk) ==
    IF sock = None THEN <<>> ELSE <<send_raw(sock, conn, lnk, QuitLeaving)>>

\* User.disconnect; shutdown fails on a socket that is not connected and
\* may fail on any other, close may fail
Disconnect ==
    /\ pc = "idle"
    /\ \E shutdownFails \in (IF link \in {"fresh", "reset"} THEN {TRUE} ELSE BOOLEAN),
          closeFails \in BOOLEAN :
          result' = Result("disconnect", "none", <<>>, <<>>, "none",
                           [Call(0) EXCEPT !.sends = DisconnectSends(socket, connected, link)],
                           0,
                           DisconnectSteps(socket, connected, link, shutdownFails, closeFails))
    /\ socket' = AfterDisconnect(Pre).socket
    /\ connected' = AfterDisconnect(Pre).connected
    /\ buffer' = AfterDisconnect(Pre).buffer
    /\ link' = "none"
    /\ inflight' = <<>>
    /\ consumed' = <<>>
    /\ extracted' = <<>>
    /\ now' = 0
    /\ UNCHANGED <<nickname, connects, pc, frame, codec, pair>>

(***************************************************************************)
(* Sending.                                                                *)
(***************************************************************************)
\* User.send_raw, or one of the command builders other than nick
CommandOf(calls) ==
    /\ pc = "idle"
    /\ \E c \in calls :
          \E sent \in {send_raw(socket, connected, link, c.line)} :
             result' = Result(c.name, sent.raised, <<>>, <<>>, "none",
                              [Call(0) EXCEPT !.sends = <<sent>>, !.args = c.args],
                              0, <<>>)
    /\ now' = 0
    /\ UNCHANGED <<user, net, connects, hist, pc, frame, codec, pair>>

Command == CommandOf(Calls)

\* User.nick(new_nickname)
Nick ==
    /\ pc = "idle"
    /\ \E new_nickname \in Nicknames :
          \E sent \in {send_raw(socket, connected, link, NickLine(new_nickname))} :
          \E r \in {nick(nickname, new_nickname, sent)} :
             /\ nickname' = r.nickname
             /\ result' = [Result("nick", r.raised, <<>>, <<>>, "none",
                                  [Call(0) EXCEPT !.sends = <<sent>>,
                                                  !.args = <<new_nickname>>],
                                  0, <<>>)
                           EXCEPT !.old = r.old]
    /\ now' = 0
    /\ UNCHANGED <<socket, connected, buffer, net, connects, hist, pc, frame, codec, pair>>

(***************************************************************************)
(* The peer.                                                               *)
(***************************************************************************)
\* the server closes its side after what it has sent
PeerClose ==
    /\ link = "established"
    /\ link' = "peerclosed"
    /\ UNCHANGED <<user, inflight, now, connects, hist, pc, frame, result, codec, pair>>

\* the connection breaks (RST): data already queued stays readable
PeerReset ==
    /\ link \in {"established", "peerclosed"}
    /\ link' = "reset"
    /\ UNCHANGED <<user, inflight, now, connects, hist, pc, frame, result, codec, pair>>

(***************************************************************************)
(* The timed receive primitives.                                           *)
(***************************************************************************)
\* what one call of recv with this timeout can do, and the time it takes:
\* the full timeout when it times out, at most the timeout otherwise
Reads(timeout, sizes) ==
    IF socket = None
    THEN {[net |-> [kind |-> "none", data |-> <<>>], dt |-> 0, timeout |-> timeout]}
    ELSE {rd \in [net : NetOutcomes(link, inflight, timeout, sizes), dt : 0..timeout,
                  timeout : {timeout}] :
            rd.net.kind = "timeout" => rd.dt = timeout}

\* the lengths of the reads: a segment of SegmentSize bytes or all that is
\* on its way; any length where the framing itself is examined
Segments == {SegmentSize, Len(inflight)}
AnyLength == 1..Len(inflight)

\* the time a receive call took, the bytes it read and what its recv did
Took(r, rd) == IF r.read THEN rd.dt ELSE 0
Got(r, rd) == IF r.read /\ rd.net.kind = "data" THEN rd.net.data ELSE <<>>
Did(r, rd) == IF r.read THEN rd.net.kind ELSE "none"

\* the messages of a batch, each with whether a send could succeed when it
\* was extracted
Seen(msgs) ==
    [i \in 1..Len(msgs) |->
        [msg |-> msgs[i], up |-> connected /\ socket # None /\ CanSend(link)]]

\* the frame after one more receive call r, answered by rd
Noted(f, r, rd) ==
    [f EXCEPT !.seen = f.seen \o Seen(r.msgs),
              !.sends = f.sends \o r.sends,
              !.last = IF r.msgs # <<>> THEN now + Took(r, rd) ELSE f.last,
              !.late = f.late \/ (f.closed /\ r.read),
              !.given = f.given \cup {rd.timeout},
              !.closed = f.closed \/ (connected /\ ~r.connected)]

\* the effect of one receive call r, answered by rd, on the User, the
\* network, the clock and the session's logs
ReceiveEffect(r, rd) ==
    /\ connected' = r.connected
    /\ buffer' = r.buffer
    /\ inflight' = SubSeq(inflight, Len(Got(r, rd)) + 1, Len(inflight))
    /\ consumed' = consumed \o Got(r, rd)
    /\ extracted' = extracted \o r.msgs
    /\ now' = now + Took(r, rd)
    /\ UNCHANGED <<socket, nickname, link, connects, codec, pair>>

\* User.receive(timeout), the network delivering reads of the lengths sizes
ReceiveCall(sizes) ==
    /\ pc = "idle"
    /\ \E timeout \in Timeouts :
          \E rd \in Reads(timeout, sizes) :
             \E r \in {receive(socket, connected, buffer, link, rd.net)} :
                    /\ connected' = r.connected
                    /\ buffer' = r.buffer
                    /\ inflight' = SubSeq(inflight, Len(Got(r, rd)) + 1, Len(inflight))
                    /\ consumed' = consumed \o Got(r, rd)
                    /\ extracted' = extracted \o r.msgs
                    /\ now' = Took(r, rd)
                    /\ result' = Result("receive", r.raised, r.msgs, <<>>, Did(r, rd),
                                        [Noted(Call(timeout), r, rd)
                                            EXCEPT !.got = Got(r, rd)],
                                        Took(r, rd), <<>>)
    /\ UNCHANGED <<socket, nickname, link, connects, pc, frame, codec, pair>>

Receive == ReceiveCall(Segments)

\* User.receive_until(commands, timeout), up to the loop
ReceiveUntilWith(targets) ==
    /\ pc = "idle"
    /\ \E commands \in targets, T \in Durations :
          frame' = [Call(T) EXCEPT !.commands = TargetSet(commands),
                                   !.args = <<commands>>]
    /\ pc' = "receive_until"
    /\ now' = 0
    /\ result' = Running
    /\ UNCHANGED <<user, net, connects, hist, codec, pair>>

ReceiveUntilCall == ReceiveUntilWith(CommandArgs)

\* one turn of the loop of User.receive_until: leave on the deadline, or
\* call receive and scan its batch
ReceiveUntilStep ==
    /\ pc = "receive_until"
    /\ IF LoopEnds(frame.end_time, now)
       THEN /\ pc' = "idle"
            /\ frame' = NoFrame
            /\ result' = Result("receive_until", "none", frame.all_msgs, <<>>, "none",
                                frame, now, <<>>)
            /\ UNCHANGED <<user, net, now, connects, hist, codec, pair>>
       ELSE \E rd \in Reads(Min(frame.end_time - now, UntilSlice), Segments) :
             \E r \in {receive(socket, connected, buffer, link, rd.net)} :
             \E scan \in {ScanBatch(frame.all_msgs, r.msgs, frame.commands)} :
             \E f \in {Noted(frame, r, rd)} :
                    /\ ReceiveEffect(r, rd)
                    /\ IF r.raised # "none" \/ scan.match # <<>>
                       THEN /\ pc' = "idle"
                            /\ frame' = NoFrame
                            /\ result' = Result("receive_until", r.raised, scan.all_msgs,
                                                scan.match, Did(r, rd), f,
                                                now + Took(r, rd), <<>>)
                       ELSE /\ pc' = "receive_until"
                            /\ frame' = [f EXCEPT !.all_msgs = scan.all_msgs]
                            /\ UNCHANGED result

\* User.collect(timeout), up to the loop
CollectWith(timeouts) ==
    /\ pc = "idle"
    /\ \E T \in timeouts : frame' = Call(T)
    /\ pc' = "collect"
    /\ now' = 0
    /\ result' = Running
    /\ UNCHANGED <<user, net, connects, hist, codec, pair>>

CollectCall == CollectWith(Durations)

\* one turn of the loop of User.collect
CollectStep ==
    /\ pc = "collect"
    /\ IF LoopEnds(frame.end_time, now)
       THEN /\ pc' = "idle"
            /\ frame' = NoFrame
            /\ result' = Result("collect", "none", frame.all_msgs, <<>>, "none",
                                frame, now, <<>>)
            /\ UNCHANGED <<user, net, now, connects, hist, codec, pair>>
       ELSE \E rd \in Reads(Min(frame.end_time - now, CollectSlice), Segments) :
             \E r \in {receive(socket, connected, buffer, link, rd.net)} :
             \E f \in {Noted(frame, r, rd)} :
                    /\ ReceiveEffect(r, rd)
                    /\ IF r.raised # "none"
                       THEN /\ pc' = "idle"
                            /\ frame' = NoFrame
                            /\ result' = Result("collect", r.raised, frame.all_msgs, <<>>,
                                                Did(r, rd), f, now + Took(r, rd), <<>>)
                       ELSE /\ pc' = "collect"
                            /\ frame' = [f EXCEPT !.all_msgs = Extend(f.all_msgs, r.msgs)]
                            /\ UNCHANGED result

(***************************************************************************)
(* Registration.                                                           *)
(***************************************************************************)
\* User.authenticate up to the loop of its receive_until: the three sends,
\* during which the connection may break
AuthenticateCall ==
    /\ pc = "idle"
    /\ \E lasting \in (IF connected /\ socket # None /\ CanSend(link) THEN 1..3 ELSE {3}) :
          \E sends \in {UpToRaise(SendEach(AuthLines(Password, nickname, Username, Realname),
                                           socket, connected, link, lasting))} :
          \E f \in {[Call(AuthDeadline) EXCEPT
                         !.commands = TargetSet([isStr |-> TRUE, value |-> Welcome]),
                         !.sends = sends]} :
             /\ link' = IF lasting < 3 THEN "reset" ELSE link
             /\ IF sends[Len(sends)].raised # "none"
                THEN /\ pc' = "idle"
                     /\ frame' = NoFrame
                     /\ result' = Result("authenticate", sends[Len(sends)].raised,
                                         <<>>, <<>>, "none", f, 0, <<>>)
                ELSE /\ pc' = "authenticate"
                     /\ frame' = f
                     /\ result' = Running
    /\ now' = 0
    /\ UNCHANGED <<user, inflight, connects, hist, codec, pair>>

\* one turn of the loop of the receive_until of User.authenticate, and the
\* return of authenticate when the loop ends
AuthenticateStep ==
    /\ pc = "authenticate"
    /\ IF LoopEnds(frame.end_time, now)
       THEN \E ret \in {AuthReturn(frame.all_msgs, <<>>)} :
                    /\ pc' = "idle"
                    /\ frame' = NoFrame
                    /\ result' = [Result("authenticate", ret.raised, ret.msgs, <<>>, "none",
                                         frame, now, <<>>)
                                  EXCEPT !.ok = ret.ok]
                    /\ UNCHANGED <<user, net, now, connects, hist, codec, pair>>
       ELSE \E rd \in Reads(Min(frame.end_time - now, UntilSlice), Segments) :
             \E r \in {receive(socket, connected, buffer, link, rd.net)} :
             \E scan \in {ScanBatch(frame.all_msgs, r.msgs, frame.commands)} :
             \E f \in {Noted(frame, r, rd)} :
                    /\ ReceiveEffect(r, rd)
                    /\ IF r.raised # "none"
                       THEN /\ pc' = "idle"
                            /\ frame' = NoFrame
                            /\ result' = Result("authenticate", r.raised, <<>>, <<>>,
                                                Did(r, rd), f, now + Took(r, rd), <<>>)
                       ELSE IF scan.match # <<>>
                       THEN \E ret \in {AuthReturn(scan.all_msgs, scan.match)} :
                            /\ pc' = "idle"
                            /\ frame' = NoFrame
                            /\ result' = [Result("authenticate", ret.raised, ret.msgs,
                                                 scan.match, Did(r, rd), f,
                                                 now + Took(r, rd), <<>>)
                                          EXCEPT !.ok = ret.ok]
                       ELSE /\ pc' = "authenticate"
                            /\ frame' = [f EXCEPT !.all_msgs = scan.all_msgs]
                            /\ UNCHANGED result

Next ==
    \/ ConnectOk
    \/ ConnectFail
    \/ Disconnect
    \/ PeerClose
    \/ PeerReset
    \/ AuthenticateCall
    \/ AuthenticateStep
    \/ Command
    \/ Nick
    \/ Receive
    \/ ReceiveUntilCall
    \/ ReceiveUntilStep
    \/ CollectCall
    \/ CollectStep

Spec == Init /\ [][Next]_vars

(***************************************************************************)
(* The timed loops where the clock advances: receive_until and collect on *)
(* a session whose server sends, stays silent, closes or breaks off.  A   *)
(* turn of a loop that takes less than a tick leaves the clock where it   *)
(* is; the clock advancing, such turns do not go on for ever.             *)
(***************************************************************************)
Loops == {"receive_until", "collect"}

\* the turn of a loop that finds the deadline passed and returns
Leave ==
    /\ pc \in Loops
    /\ LoopEnds(frame.end_time, now)
    /\ ReceiveUntilStep \/ CollectStep

\* a step during which the clock advances, or which ends the call
Ticks == now' > now \/ pc' = "idle"

\* a turn of a loop during which the clock advances, or which ends the call
Advance ==
    /\ ReceiveUntilStep \/ CollectStep
    /\ Ticks

\* when Advance is enabled: the loop is at its deadline, or its receive
\* raises for want of a socket, or its recv is given a timeout of a tick or
\* more, during which time can pass whatever the server does
CanAdvance ==
    /\ pc \in Loops
    /\ \/ LoopEnds(frame.end_time, now)
       \/ socket = None
       \/ frame.end_time - now >= 1

\* the clock advances: WF_vars(Advance), with the enabling condition of
\* Advance written out
ClockAdvances == []<>(~CanAdvance) \/ []<><<Ticks>>_vars

NextLive ==
    \/ ConnectOk
    \/ PeerClose
    \/ PeerReset
    \/ ReceiveUntilCall
    \/ ReceiveUntilStep
    \/ CollectCall
    \/ CollectStep

SpecLive == Init /\ [][NextLive]_vars /\ WF_vars(Leave) /\ ClockAdvances

(***************************************************************************)
(* The framer alone: one session read with receive calls, the stream cut   *)
(* at any byte.                                                            *)
(***************************************************************************)
ReceiveAny == ReceiveCall(AnyLength)

\* a stream with a lone LF and a lone CR inside a line and a CR in front of
\* the CRLF that ends it
LoneEnds == {<<"a", LF, "b", CR, "c", CR>> \o CRLF}

ConnectFraming == ConnectTo(Scripts \cup LoneEnds)

NextFraming ==
    \/ ConnectFraming
    \/ PeerClose
    \/ ReceiveAny

SpecFraming == Init /\ [][NextFraming]_vars

(***************************************************************************)
(* The lines of the command builders, for the codec.  A built line is     *)
(* recorded with its verb and the arguments the builder put on it: the    *)
(* middle arguments, then the text behind ":" when the builder wrote one. *)
(***************************************************************************)
Middles == {Channel, <<"a", ":">>}
Texts ==
    { <<>>, <<"h", "i">>, <<" ", "a", " ", " ", "b", " ">>, <<":", "x">>,
      <<"a", " ", ":", "b">> }

Built1(name, verb, args, built) ==
    [name |-> name, verb |-> verb, args |-> args, line |-> built]

\* the arguments on a line whose text is written only when it is not empty
WithText(middles, text) == IF text # <<>> THEN Append(middles, text) ELSE middles

Built ==
    {Built1("nick", NICK, <<m>>, NickLine(m)) : m \in Middles}
        \cup {Built1("join", JOIN, <<m>>, join(m, Absent)) : m \in Middles}
        \cup {Built1("join", JOIN, <<m, Channel>>, join(m, Given(Channel))) : m \in Middles}
        \cup {Built1("part", PART, <<m>>, part(m, Absent)) : m \in Middles}
        \cup {Built1("part", PART, WithText(<<Channel>>, t), part(Channel, Given(t))) : t \in Texts}
        \cup {Built1("privmsg", PRIVMSG, <<m, t>>, privmsg(m, t)) : m \in Middles, t \in Texts}
        \cup {Built1("notice", NOTICE, <<m, t>>, notice(m, t)) : m \in Middles, t \in Texts}
        \cup {Built1("kick", KICK, <<Channel, m>>, kick(Channel, m, Absent)) : m \in Middles}
        \cup {Built1("kick", KICK, WithText(<<Channel, m>>, t), kick(Channel, m, Given(t))) :
                    m \in Middles, t \in Texts}
        \cup {Built1("invite", INVITE, <<m, Channel>>, invite(m, Channel)) : m \in Middles}
        \cup {Built1("topic", TOPIC, <<m>>, topic(m, Absent)) : m \in Middles}
        \cup {Built1("topic", TOPIC, <<Channel, t>>, topic(Channel, Given(t))) : t \in Texts}
        \cup {Built1("mode", MODE, <<m>>, mode(m, Absent, Absent)) : m \in Middles}
        \cup {Built1("mode", MODE, <<Channel, m>>, mode(Channel, Given(m), Absent)) : m \in Middles}
        \cup {Built1("mode", MODE, <<Channel, <<"+", "o">>, m>>,
                      mode(Channel, Given(<<"+", "o">>), Given(m))) : m \in Middles}
        \cup {Built1("quit", QUIT, <<>>, quit(Absent))}
        \cup {Built1("quit", QUIT, WithText(<<>>, t), quit(Given(t))) : t \in Texts}
        \cup {Built1("ping", PING, <<t>>, ping(t)) : t \in Texts}

(***************************************************************************)
(* The codec alone: IRCMessage.parse called on a line.                     *)
(***************************************************************************)
ParseLine ==
    /\ line' \in Lines(line)
    /\ parsed' = Parse(line')
    /\ UNCHANGED <<user, net, now, connects, hist, pc, frame, result, pair>>

\* IRCMessage.parse called on a line a command builder made
ParseBuilt ==
    /\ \E b \in Built : line' = b.line
    /\ parsed' = Parse(line')
    /\ UNCHANGED <<user, net, now, connects, hist, pc, frame, result, pair>>

NextParse == ParseLine \/ ParseBuilt

SpecParse == Init /\ [][NextParse]_vars

(***************************************************************************)
(* Two Users driven by one control thread (multi_user_suite.py).  Each    *)
(* method is the operator of the single User applied to the fields of one *)
(* object; next to the two, each is followed as it is when only its own   *)
(* calls are made, the server sending it the same bytes.                  *)
(***************************************************************************)
\* an assignment that keeps the buffer in the class, where every User
\* sees it
Assign_sharedBuffer(objects, self, after) ==
    [i \in DOMAIN objects |->
        IF i = self THEN after ELSE [objects[i] EXCEPT !.buffer = after.buffer]]

\* self.x = ...: the fields are attributes of the object, set in __init__
Assign(objects, self, after) == [objects EXCEPT ![self] = after]

\* the timeout of receive when none is given, in ticks
DefaultTimeout == 10

\* a method's effect on its object and the value it returns
Done(self, value) == [user |-> self, value |-> value]

User_connect(self, id, script) ==
    Done([self EXCEPT !.socket = id,
                      !.connected = AfterConnect(self).connected,
                      !.buffer = AfterConnect(self).buffer,
                      !.link = "established",
                      !.inflight = script],
         Value("none", <<>>, <<>>))

User_disconnect(self) ==
    Done([self EXCEPT !.socket = AfterDisconnect(self).socket,
                      !.connected = AfterDisconnect(self).connected,
                      !.buffer = AfterDisconnect(self).buffer,
                      !.link = "none",
                      !.inflight = <<>>],
         Value("none", <<>>, <<>>))

User_send(self, message) ==
    Done(self, Value(send_raw(self.socket, self.connected, self.link, message).raised,
                     <<>>, <<>>))

NickDone(self, r) == Done([self EXCEPT !.nickname = r.nickname], Value(r.raised, <<>>, r.old))

User_nick(self, new_nickname) ==
    NickDone(self, nick(self.nickname, new_nickname,
                        send_raw(self.socket, self.connected, self.link,
                                 NickLine(new_nickname))))

ReceiveDone(self, rd, r) ==
    Done([self EXCEPT !.connected = r.connected,
                      !.buffer = r.buffer,
                      !.inflight = IF r.read /\ rd.kind = "data"
                                   THEN SubSeq(self.inflight, Len(rd.data) + 1,
                                               Len(self.inflight))
                                   ELSE self.inflight],
         Value(r.raised, r.msgs, <<>>))

User_receive(self, rd) ==
    ReceiveDone(self, rd, receive(self.socket, self.connected, self.buffer, self.link, rd))

\* one call on User i: its effect among the two, its effect on the User
\* alone, and the record of the call
Called(i, op, among, single) ==
    /\ users' = Assign(users, i, among.user)
    /\ alone' = [alone EXCEPT ![i] = single.user]
    /\ returned' = [who |-> i, op |-> op, value |-> among.value, solo |-> single.value]
    /\ UNCHANGED <<user, net, now, connects, hist, pc, frame, result, codec, suite>>

TheirConnect ==
    \E i \in Who, script \in Scripts :
        Called(i, "connect", User_connect(users[i], i, script),
               User_connect(alone[i], i, script))

TheirDisconnect ==
    \E i \in Who :
        Called(i, "disconnect", User_disconnect(users[i]), User_disconnect(alone[i]))

TheirPrivmsg ==
    \E i \in Who :
        Called(i, "privmsg", User_send(users[i], privmsg(Channel, <<"h", "i">>)),
               User_send(alone[i], privmsg(Channel, <<"h", "i">>)))

TheirNick ==
    \E i \in Who, new_nickname \in Nicknames :
        Called(i, "nick", User_nick(users[i], new_nickname),
               User_nick(alone[i], new_nickname))

TheirReceive ==
    \E i \in Who :
        \E rd \in NetOutcomes(users[i].link, users[i].inflight, DefaultTimeout,
                               {SegmentSize, Len(users[i].inflight)}) :
            Called(i, "receive", User_receive(users[i], rd), User_receive(alone[i], rd))

\* the server closes the connection of one of the two
TheirPeerClose ==
    \E i \in Who :
        /\ users[i].link = "established"
        /\ users' = [users EXCEPT ![i].link = "peerclosed"]
        /\ alone' = [alone EXCEPT ![i].link = "peerclosed"]
        /\ UNCHANGED <<user, net, now, connects, hist, pc, frame, result, codec, returned,
                       suite>>

NextTwo ==
    \/ TheirConnect
    \/ TheirDisconnect
    \/ TheirPrivmsg
    \/ TheirNick
    \/ TheirReceive
    \/ TheirPeerClose

SpecTwo == Init /\ [][NextTwo]_vars

(***************************************************************************)
(* Properties.                                                             *)
(***************************************************************************)
Primitives == {"receive", "receive_until", "collect"}

\* the messages of an account of extractions
MsgsOf(seen) == [i \in 1..Len(seen) |-> seen[i].msg]

\* the batch one read of the whole of data gives on an empty buffer
WholeRead(data) == _flush_buffer(Decode(data), None, FALSE, "none").msgs

\* C1: however the stream is cut into reads, the messages returned by the
\* successive receive calls are, in order, the batch one read of the whole
\* stream read so far gives
C1_FragmentationInvariance == extracted = WholeRead(consumed)

\* the token a PONG for msg carries
TokenOf(msg) == IF msg.params # <<>> THEN msg.params[1] ELSE <<>>

IsPing(e) == e.msg.command = PING

\* the PONG calls an account of extractions asks for: one per PING, in
\* order, with the PING's token, put on the wire when a send could succeed
PongsDue(seen) ==
    LET pings == SelectSeq(seen, IsPing)
    IN  [i \in 1..Len(pings) |->
            [message |-> PongLine(TokenOf(pings[i].msg)), wired |-> pings[i].up]]

\* the send_raw calls of an account, each with whether it put exactly its
\* CRLF-terminated line on the wire
PongsMade(sends) ==
    [i \in 1..Len(sends) |->
        [message |-> sends[i].message,
         wired |-> sends[i].raised = "none" /\ sends[i].data = Encode(sends[i].message \o CRLF)]]

\* C2 (as amended): at every moment of a receive primitive the send_raw
\* calls made so far are exactly one "PONG :<token>" per PING extracted so
\* far, in order, with the PING's first parameter (or nothing) as token, and
\* nothing for any other message; the line reached the wire exactly when
\* the User was connected, held a socket and the socket took the send
C2_KeepaliveAttempted ==
    /\ pc \in Primitives => PongsMade(frame.sends) = PongsDue(frame.seen)
    /\ pc = "authenticate" =>
            PongsMade(SubSeq(frame.sends, 4, Len(frame.sends))) = PongsDue(frame.seen)
    /\ result.op \in Primitives => PongsMade(result.sends) = PongsDue(result.seen)

\* C2 witness: a primitive returned a PING with a token whose PONG was sent
C2_Witness ==
    /\ result.op \in Primitives
    /\ \E i \in 1..Len(result.seen) :
          /\ result.seen[i].msg.command = PING
          /\ result.seen[i].msg.params # <<>>
          /\ result.seen[i].up
          /\ result.msgs # <<>>

\* C2 (as claimed): every PING extracted has its PONG on the wire
C2_EveryPingAnswered ==
    result.op \in Primitives =>
        /\ PongsMade(result.sends) = PongsDue(result.seen)
        /\ \A i \in 1..Len(result.sends) : result.sends[i].raised = "none"

\* C3: every message the framer extracted during a call of a primitive is in
\* the list that call returns
C3_NothingMissed ==
    (result.op \in Primitives /\ result.raised = "none") =>
        result.msgs = MsgsOf(result.seen)

\* C4: receive_until returns a match that is in the list, has a target
\* command and has no message with a target command before it; without a
\* match no message of the list has a target command, and every message of
\* the list was extracted during the call, none after the deadline
C4_ReceiveUntilContract ==
    (result.op = "receive_until" /\ result.raised = "none") =>
        IF result.match # <<>>
        THEN \E i \in 1..Len(result.msgs) :
                /\ result.msgs[i] = result.match[1]
                /\ result.match[1].command \in result.commands
                /\ \A j \in 1..(i - 1) : result.msgs[j].command \notin result.commands
        ELSE /\ \A i \in 1..Len(result.msgs) :
                    result.msgs[i].command \notin result.commands
             /\ result.msgs = MsgsOf(result.seen)
             /\ result.seen # <<>> => result.last <= result.T

\* C4 witness: receive_until returned a match, the last of a list of two
\* messages or more
C4_Witness ==
    /\ result.op = "receive_until"
    /\ result.match # <<>>
    /\ Len(result.msgs) >= 2
    /\ result.match[1] = result.msgs[Len(result.msgs)]

\* C5: collect does not return before its duration has elapsed, and returns
\* every message extracted meanwhile
C5_CollectFullDuration ==
    (result.op = "collect" /\ result.raised = "none") =>
        /\ result.elapsed >= result.T
        /\ result.msgs = MsgsOf(result.seen)

\* C5 witness: a collect of a positive duration on a connection that stayed
\* open returned messages of more than one read
C5_Witness ==
    /\ result.op = "collect"
    /\ result.T > 0
    /\ ~result.closed
    /\ connected
    /\ Len(result.msgs) >= 2
    /\ result.last > 0

\* C6: once a receive inside collect has flipped connected to false, on a
\* connection that had been established, collect calls recv no more
C6_CollectEndsOnClose ==
    /\ (pc = "collect" /\ link # "fresh") => ~frame.late
    /\ (result.op = "collect" /\ link # "fresh") => ~result.late

\* C7: receive, receive_until and collect never raise
C7_NeverRaise == result.op \in Primitives => result.raised = "none"

\* C8: a receive on a connected User during which no data arrives returns
\* an empty batch and leaves the flag true and the buffer as it was
C8_NoDataKeepsConnection ==
    (/\ result.op = "receive"
     /\ result.pre.connected
     /\ result.net \in {"timeout", "wouldblock"}) =>
        /\ result.raised = "none"
        /\ result.msgs = <<>>
        /\ connected
        /\ buffer = result.pre.buffer

\* C9: a receive whose recv reports peer close or fails returns an empty
\* batch, leaves connected false and the buffered tail as it was
C9_ReceiveOnClose ==
    (result.op = "receive" /\ result.net \in {"eof", "oserror", "wouldblock"}) =>
        /\ result.raised = "none"
        /\ result.msgs = <<>>
        /\ ~connected
        /\ buffer = result.pre.buffer

\* C9 witness: recv reported peer close to a connected User with a tail
\* in the buffer
C9_Witness ==
    /\ result.op = "receive"
    /\ result.net = "eof"
    /\ result.pre.connected
    /\ result.pre.buffer # <<>>

\* C10: disconnect returns without raising and leaves connected false, the
\* buffer empty and no socket, whatever it found and whichever step failed;
\* on a User it has already disconnected it attempts nothing
C10_DisconnectTotal ==
    result.op = "disconnect" =>
        /\ result.raised = "none"
        /\ Pre = Disconnected
        /\ result.pre = Disconnected => (result.steps = <<>> /\ result.sends = <<>>)

\* C10 witness: disconnect was called on a connected User with a tail in
\* the buffer, and its QUIT and its shutdown failed
C10_Witness ==
    /\ result.op = "disconnect"
    /\ result.pre.connected
    /\ result.pre.buffer # <<>>
    /\ result.steps # <<>>
    /\ result.steps[1].failed
    /\ result.steps[2].failed

Senders == {"send_raw", "nick", "join", "part", "privmsg", "notice", "kick",
            "invite", "topic", "mode", "ping", "quit"}

\* the bytes the send_raw calls of an account put on the wire
RECURSIVE Wire(_)
Wire(sends) == IF sends = <<>> THEN <<>> ELSE Head(sends).data \o Wire(Tail(sends))

\* C11: send_raw and every command builder, called while connected is false
\* or no socket is held, raise ConnectionError and transmit no bytes; nick
\* then leaves the nickname as it was
C11_SendOnClosedRaises ==
    (/\ result.op \in Senders
     /\ (~result.pre.connected \/ result.pre.socket = None)) =>
        /\ result.raised = "ConnectionError"
        /\ Wire(result.sends) = <<>>
        /\ nickname = result.was

\* C11 witness: a builder was called on a User that holds a socket and
\* whose flag is false
C11_Witness ==
    /\ result.op = "privmsg"
    /\ ~result.pre.connected
    /\ result.pre.socket # None
    /\ result.raised = "ConnectionError"

\* the lines of the send_raw calls of an account
LinesOf(sends) == [i \in 1..Len(sends) |-> sends[i].message]

\* the three lines of registration of a User whose nickname is nick_name
Registration(nick_name) ==
    << PASS \o Sp \o Password,
       NICK \o Sp \o nick_name,
       USER \o Sp \o Username \o Sp \o <<"0", " ", "*", " ", ":">> \o Realname >>

\* an account of an authenticate whose three sends succeeded: PASS, NICK and
\* USER are on the wire, in that order and before the first receive, and
\* the later sends are the PONGs of the PINGs extracted since
RegistrationSent(f) ==
    /\ Len(f.sends) >= 3
    /\ LinesOf(SubSeq(f.sends, 1, 3)) = Registration(f.was)
    /\ \A i \in 1..3 : PongsMade(f.sends)[i].wired
    /\ f.given = {} => Len(f.sends) = 3
    /\ PongsMade(SubSeq(f.sends, 4, Len(f.sends))) = PongsDue(f.seen)
    /\ f.T = AuthDeadline
    /\ f.commands = {Welcome}

HasWelcome(msgs) == \E i \in 1..Len(msgs) : msgs[i].command = Welcome

\* C13: authenticate returns ok true exactly when its list holds a 001, and
\* its list is, in order, every message extracted between its sends and its
\* return
C13_AuthenticateSurfacesAll ==
    (result.op = "authenticate" /\ result.raised = "none") =>
        /\ result.ok <=> HasWelcome(result.msgs)
        /\ result.msgs = MsgsOf(result.seen)

\* C14: an authenticate whose three sends succeeded and during which no 001
\* was extracted returns, without raising and not before its deadline,
\* false and the list of every message extracted meanwhile
C14_FailureIsBoolean ==
    (/\ result.op = "authenticate"
     /\ Len(result.sends) >= 3
     /\ \A i \in 1..3 : result.sends[i].raised = "none"
     /\ ~HasWelcome(MsgsOf(result.seen))) =>
        /\ result.raised = "none"
        /\ ~result.ok
        /\ result.msgs = MsgsOf(result.seen)
        /\ result.elapsed = AuthDeadline

\* C14 witness: the server sent messages other than 001 and closed the
\* connection; authenticate returned false with the messages
C14_Witness ==
    /\ result.op = "authenticate"
    /\ result.raised = "none"
    /\ ~result.ok
    /\ result.closed
    /\ link = "peerclosed"
    /\ result.msgs # <<>>

\* C15 (as amended): a nick(newName) whose send the socket accepts has put
\* the one line "NICK newName" on the wire, has called no receive, returns
\* the nickname it found and leaves newName as the nickname; nothing but a
\* later nick changes the nickname
C15_NickUpdatesLocally ==
    /\ [](((result.op = "nick" /\ result.raised = "none") =>
              /\ LinesOf(result.sends) = <<NickLine(result.args[1])>>
              /\ PongsMade(result.sends)[1].wired
              /\ result.given = {}
              /\ result.seen = <<>>
              /\ result.old = result.was
              /\ nickname = result.args[1]))
    /\ [][nickname' # nickname =>
            (result'.op = "nick" /\ nickname' = result'.args[1])]_vars

\* C15 witness: a nick with a new name returned the old one, the new one
\* being the nickname
C15_Witness ==
    /\ result.op = "nick"
    /\ result.raised = "none"
    /\ result.args[1] # result.was
    /\ result.old = result.was
    /\ nickname = result.args[1]

\* C15 (as claimed): every nick(newName) on a User whose connected flag is
\* true transmits its line and leaves newName as the nickname
C15_NickOnConnected ==
    (result.op = "nick" /\ result.pre.connected) =>
        /\ result.raised = "none"
        /\ Wire(result.sends) = Encode(NickLine(result.args[1]) \o CRLF)
        /\ nickname = result.args[1]

\* the messages added to the sequence of extracted messages by a step
Fresh == SubSeq(extracted', Len(extracted) + 1, Len(extracted'))

\* the messages the running call had extracted before a step, and those it
\* has extracted after it
SeenBefore == IF pc = "idle" THEN <<>> ELSE MsgsOf(frame.seen)
SeenAfter == IF pc' = "idle" THEN MsgsOf(result'.seen) ELSE MsgsOf(frame'.seen)

\* C16: the list a primitive returns is a contiguous run of the sequence of
\* messages extracted from the stream, in stream order: it is the beginning
\* of the run of messages extracted during the call, which is the end of
\* the sequence; the run of a call begins empty and every message extracted
\* is added to the run of the one call during which it was extracted, so
\* that no message is in two lists or twice in one
C16_ArrivalOrder ==
    /\ []((result.op \in Primitives /\ result.raised = "none") =>
            /\ Len(result.msgs) <= Len(result.seen)
            /\ result.msgs = SubSeq(MsgsOf(result.seen), 1, Len(result.msgs))
            /\ Len(result.seen) <= Len(extracted)
            /\ MsgsOf(result.seen) =
                   SubSeq(extracted, Len(extracted) - Len(result.seen) + 1, Len(extracted)))
    /\ [][/\ (pc = "idle" /\ pc' # "idle") => (frame'.seen = <<>> /\ extracted' = extracted)
          /\ (extracted' # extracted /\ extracted' # <<>>) =>
                (/\ Len(extracted') > Len(extracted)
                 /\ extracted = SubSeq(extracted', 1, Len(extracted))
                 /\ SeenAfter = SeenBefore \o Fresh)]_vars

\* C16 witness: a collect returned a message it extracted after its first
\* read, on a connection of which an earlier call had extracted one
C16_Witness ==
    /\ result.op = "collect"
    /\ result.raised = "none"
    /\ result.msgs # <<>>
    /\ result.last > 0
    /\ Len(extracted) > Len(result.seen)

\* the PINGs of a list of messages
IsPingMsg(msg) == msg.command = PING
Pings(msgs) == SelectSeq(msgs, IsPingMsg)

\* C17: every PING extracted during a call of a primitive, for each of
\* which the framer attempted a PONG, is in the list the call returns
C17_PingsReturned ==
    (result.op \in Primitives /\ result.raised = "none") =>
        /\ Len(result.sends) = Len(Pings(MsgsOf(result.seen)))
        /\ Pings(result.msgs) = Pings(MsgsOf(result.seen))

\* the slice of the loop of a primitive
SliceOf(op) == IF op = "collect" THEN CollectSlice ELSE UntilSlice

\* an account of a loop with duration T and this slice, at time t after the
\* call: the time is within the duration, every receive was given a timeout
\* that is positive and at most the slice and the duration, and with
\* T <= 0 no receive was called and nothing extracted
Bounded(f, slice, t) ==
    /\ t <= (IF f.T > 0 THEN f.T ELSE 0)
    /\ \A timeout \in f.given : timeout >= 1 /\ timeout <= Min(f.T, slice)
    /\ f.T <= 0 => (f.given = {} /\ f.seen = <<>> /\ f.sends = <<>>)

\* C18: receive(t) returns within t; receive_until and collect with duration
\* T return no later than T after the call, give every receive a timeout
\* that is positive and at most min(T, slice), and with T <= 0 return an
\* empty result at once without calling receive
C18_BoundedResponse ==
    /\ result.op = "receive" => result.elapsed <= result.T
    /\ pc \in {"receive_until", "collect"} => Bounded(frame, SliceOf(pc), now)
    /\ result.op \in {"receive_until", "collect"} =>
            /\ Bounded(result, SliceOf(result.op), result.elapsed)
            /\ result.T <= 0 =>
                    (result.msgs = <<>> /\ result.match = <<>> /\ result.net = "none"
                     /\ result.elapsed = 0)

\* C18 witness: a receive_until of three ticks returned at its deadline, its
\* last receive given the one tick that remained
C18_Witness ==
    /\ result.op = "receive_until"
    /\ result.T = 3
    /\ result.elapsed = 3
    /\ result.given = {1, 2}
    /\ result.match = <<>>

\* where the search for the trailing marker of a line begins: behind the
\* prefix and its space, or at the beginning of a line without a prefix
Prefixed(l) == l # <<>> /\ l[1] = ":"
Behind(l) == IF Prefixed(l) THEN Find(l, <<" ">>, 0) + 1 ELSE 0

\* where the first space-colon marker behind the prefix is, or -1
Marker(l) == Find(l, <<" ", ":">>, Behind(l))

\* the tokens between the prefix and the marker
Middle(l) == Split(Slice(l, Behind(l), Marker(l)))

\* a line with a prefix and nothing else has no space
PrefixOnly(l) == Prefixed(l) /\ Find(l, <<" ">>, 0) = -1

\* C19: when the line has a space-colon marker behind the prefix, the text
\* after the first such marker is, verbatim, the last element of params; the
\* first token between prefix and marker, uppercased, is the command and
\* the tokens after it are the params before the trailing one, in order
C19_TrailingParameter ==
    (~PrefixOnly(line) /\ Marker(line) # -1) =>
        /\ parsed.params # <<>>
        /\ parsed.params[Len(parsed.params)] = From(line, Marker(line) + 2)
        /\ parsed.command =
               (IF Middle(line) = <<>> THEN <<>> ELSE UpperStr(Head(Middle(line))))
        /\ SubSeq(parsed.params, 1, Len(parsed.params) - 1) =
               (IF Middle(line) = <<>> THEN <<>> ELSE Tail(Middle(line)))

\* the tokens of a line behind its prefix, the trailing parameter being one
Tokens(l) ==
    IF PrefixOnly(l) \/ l = <<>> THEN <<>>
    ELSE IF Marker(l) # -1 THEN Append(Middle(l), From(l, Marker(l) + 2))
    ELSE Split(From(l, Behind(l)))

\* C20: the command of a parsed line has no lowercase letter and no
\* whitespace, and params is the tokens that follow the command token
C20_MessageInvariant ==
    /\ \A i \in 1..Len(parsed.command) :
            /\ Upper(parsed.command[i]) = parsed.command[i]
            /\ ~IsSpace(parsed.command[i])
    /\ Len(parsed.params) = (IF Tokens(line) = <<>> THEN 0 ELSE Len(Tokens(line)) - 1)
    /\ \A i \in 1..Len(parsed.params) : parsed.params[i] = Tokens(line)[i + 1]

\* whether text holds the character c, and the text before and after the
\* first c in it
Has(text, c) == \E i \in 1..Len(text) : text[i] = c
FirstOf(text, c) == CHOOSE i \in 1..Len(text) : text[i] = c /\ \A j \in 1..(i - 1) : text[j] # c
BeforeFirst(text, c) == SubSeq(text, 1, FirstOf(text, c) - 1)
AfterFirst(text, c) == SubSeq(text, FirstOf(text, c) + 1, Len(text))

\* the prefix of a line: the text between its leading ":" and its first
\* space, or its end; nothing when it has no leading ":"
PrefixOf(l) ==
    IF ~Prefixed(l) THEN <<>>
    ELSE IF Has(l, " ") THEN SubSeq(l, 2, FirstOf(l, " ") - 1)
    ELSE SubSeq(l, 2, Len(l))

\* nick, user and host of a prefix as the claim decomposes it
Decomposed(p) ==
    IF Has(p, "!")
    THEN IF Has(AfterFirst(p, "!"), "@")
         THEN [nick |-> BeforeFirst(p, "!"),
               user |-> BeforeFirst(AfterFirst(p, "!"), "@"),
               host |-> AfterFirst(AfterFirst(p, "!"), "@")]
         ELSE [nick |-> BeforeFirst(p, "!"), user |-> AfterFirst(p, "!"), host |-> <<>>]
    ELSE IF Has(p, "@")
    THEN [nick |-> BeforeFirst(p, "@"), user |-> <<>>, host |-> AfterFirst(p, "@")]
    ELSE [nick |-> p, user |-> <<>>, host |-> <<>>]

\* C21: the prefix of a parsed line is the text between its leading ":" and
\* its first space, empty without a leading ":"; nick, user and host are
\* split off it at the first "!" and the first "@" behind it, or at the
\* first "@" when it has no "!", and the nick is all of it otherwise
C21_PrefixDecomposition ==
    /\ parsed.prefix = PrefixOf(line)
    /\ parsed.nick = Decomposed(PrefixOf(line)).nick
    /\ parsed.user = Decomposed(PrefixOf(line)).user
    /\ parsed.host = Decomposed(PrefixOf(line)).host

\* C21 witness: a line whose prefix has a nick, a user and a host, and an
\* "@" in front of its "!" in another
C21_Witness ==
    /\ parsed.nick # <<>>
    /\ parsed.user # <<>>
    /\ parsed.host # <<>>
    /\ parsed.command # <<>>
    /\ ~Has(parsed.nick, "@")

\* the fields of a Message
Slots == {"raw", "prefix", "nick", "user", "host", "command", "params"}

\* C22: parse returns a Message for every line; the Message of the empty
\* line has an empty prefix, nick, user, host and command and no params;
\* the Message of a line that starts with ":" and has no space has the
\* text behind the ":" as prefix, an empty command and no params
C22_ParseTotal ==
    /\ DOMAIN parsed = Slots
    /\ line = <<>> =>
            /\ \A slot \in Slots \ {"params"} : parsed[slot] = <<>>
            /\ Len(parsed.params) = 0
    /\ (Prefixed(line) /\ ~Has(line, " ")) =>
            /\ parsed.prefix = SubSeq(line, 2, Len(line))
            /\ parsed.command = <<>>
            /\ Len(parsed.params) = 0

\* C22 witness: a line that is a prefix of several characters and nothing
\* else has been parsed
C22_Witness ==
    /\ Prefixed(line)
    /\ ~Has(line, " ")
    /\ Len(parsed.prefix) > 1
    /\ parsed.nick # parsed.prefix

\* C23: the parse of a line a command builder made has the builder's verb as
\* command and the arguments the builder put on the line as params, in
\* order, the text behind ":" character for character
C23_RoundTrip ==
    \A b \in Built :
        line = b.line =>
            /\ parsed.command = b.verb
            /\ parsed.params = b.args

\* C23 witness: a built line with two middle arguments and a text that
\* begins and ends with a space and has two spaces inside has been parsed
C23_Witness ==
    \E b \in Built :
        /\ line = b.line
        /\ parsed.raw = b.line
        /\ Len(b.args) = 3
        /\ b.args[3] = <<" ", "a", " ", " ", "b", " ">>

\* the fields of a User object the caller can tell apart
Own(u) == [socket |-> u.socket, connected |-> u.connected, buffer |-> u.buffer,
           nickname |-> u.nickname]

Builders == Senders \ {"send_raw"}

\* the lines of a run of bytes: the number of CRLF sequences in it
Terminators(bytes) ==
    Cardinality({i \in 1..(Len(bytes) - 1) : bytes[i] = CR /\ bytes[i + 1] = LF})

\* a builder that returned has called send_raw once and receive never, and
\* has left the buffer and the flag as it found them
SentAndForgot ==
    /\ Len(result.sends) = 1
    /\ result.given = {}
    /\ result.seen = <<>>
    /\ result.net = "none"
    /\ buffer = result.pre.buffer
    /\ connected = result.pre.connected

\* C25: a command builder called on a connected User, its send accepted by
\* the socket, has transmitted exactly one line, ended by the only CRLF on
\* the wire, has read nothing from the network and has left the buffer and
\* the connected flag unchanged
C25_FireAndForget ==
    (/\ result.op \in Builders
     /\ result.pre.connected
     /\ result.raised = "none") =>
        /\ SentAndForgot
        /\ Terminators(Wire(result.sends)) = 1
        /\ From(Wire(result.sends), Len(Wire(result.sends)) - 2) = CRLF

\* the characters of the lines of a list of messages
RECURSIVE RawLen(_)
RawLen(msgs) == IF msgs = <<>> THEN 0 ELSE Len(Head(msgs).raw) + RawLen(Tail(msgs))

\* C26: a connect that returned without raising has left connected true and
\* the buffer empty, whatever it found; the text buffered and the lines
\* parsed in a session are made of bytes read in that session, never of
\* text an earlier session left
C26_ConnectClearsBuffer ==
    /\ (result.op = "connect" /\ result.raised = "none") =>
            /\ connected
            /\ buffer = <<>>
    /\ Len(buffer) + RawLen(extracted) <= Len(consumed)

\* C26 witness: connect succeeded on a User that was connected and had the
\* beginning of a line in its buffer
C26_Witness ==
    /\ result.op = "connect"
    /\ result.raised = "none"
    /\ result.pre.connected
    /\ result.pre.buffer # <<>>
    /\ buffer = <<>>

\* where the CRLF sequences of a text are, and where the k-th of them is
Ends(text) == {i \in 1..(Len(text) - 1) : text[i] = CR /\ text[i + 1] = LF}
EndAt(text, k) == CHOOSE i \in Ends(text) : Cardinality({j \in Ends(text) : j < i}) = k - 1

\* the CRLF-terminated segments of a text, trimmed, in order
Terminated(text) ==
    [k \in 1..Cardinality(Ends(text)) |->
        Strip(SubSeq(text, IF k = 1 THEN 1 ELSE EndAt(text, k - 1) + 2, EndAt(text, k) - 1))]

NotBlank(segment) == segment # <<>>

\* the parses of the segments of a text that are not blank
ParsesOf(text) ==
    [k \in 1..Len(SelectSeq(Terminated(text), NotBlank)) |->
        Parse(SelectSeq(Terminated(text), NotBlank)[k])]

\* the text behind the last CRLF of a text, all of it when it has none
Remainder(text) ==
    IF Ends(text) = {} THEN text
    ELSE SubSeq(text, EndAt(text, Cardinality(Ends(text))) + 2, Len(text))

\* C27: a receive whose read delivered bytes returns the parses of the
\* trimmed CRLF-terminated segments of the buffer it found followed by the
\* decoded bytes, in order, blank segments left out, and leaves as buffer
\* the text behind the last CRLF; a lone CR or LF ends no segment
C27_LineExtraction ==
    (result.op = "receive" /\ result.net = "data") =>
        /\ result.msgs = ParsesOf(result.pre.buffer \o Decode(result.got))
        /\ buffer = Remainder(result.pre.buffer \o Decode(result.got))

\* C27 witness: a read completed a line begun in the buffer, with a lone LF
\* and a lone CR inside it, and the CRLF itself was cut between two reads
C27_Witness ==
    /\ result.op = "receive"
    /\ result.net = "data"
    /\ result.pre.buffer # <<>>
    /\ result.pre.buffer[Len(result.pre.buffer)] = CR
    /\ result.got = <<LF>>
    /\ Len(result.msgs) = 1
    /\ Has(result.msgs[1].raw, LF)
    /\ Has(result.msgs[1].raw, CR)
    /\ result.msgs[1].params = << <<"b">>, <<"c">> >>

\* a text that holds at least one complete line
HoldsLine(text) == Find(text, CRLF, 0) # -1

\* the recv calls of a finished receive: one when recv answered, none
\* otherwise
ReadsOf(r) == IF r.net = "none" THEN 0 ELSE 1

StepsOf(steps) == [i \in 1..Len(steps) |-> steps[i].step]

\* C29: a disconnect on a User that holds a socket attempts the QUIT send,
\* the shutdown and the close, in that order, whichever of them failed; the
\* QUIT line reaches the wire only when connected was true at the call, and
\* does reach it then when the connection takes the send; a disconnect on a
\* User that holds no socket attempts none of the steps
C29_DisconnectSteps ==
    result.op = "disconnect" =>
        IF result.pre.socket = None
        THEN result.steps = <<>> /\ result.sends = <<>>
        ELSE /\ StepsOf(result.steps) = <<"quit", "shutdown", "close">>
             /\ LinesOf(result.sends) = <<QuitLeaving>>
             /\ Wire(result.sends) # <<>> => result.pre.connected
             /\ Wire(result.sends) \in {<<>>, Encode(QuitLeaving \o CRLF)}
             /\ result.steps[1].failed <=> Wire(result.sends) = <<>>

\* C29 witness: disconnect on a User whose flag was false and that held a
\* socket: the QUIT send and the shutdown failed and the close was attempted
C29_Witness ==
    /\ result.op = "disconnect"
    /\ ~result.pre.connected
    /\ result.pre.socket # None
    /\ Len(result.steps) = 3
    /\ result.steps[1].failed
    /\ result.steps[2].failed
    /\ ~result.steps[3].failed
    /\ socket = None

\* C30: the clock advancing, every receive_until and every collect returns,
\* whatever the server does: when nothing ended the call before, the loop
\* is left at the deadline; a receive_until that ends so returns the list
\* accumulated and no match
C30_LoopsTerminate ==
    /\ (pc \in Loops) ~> (pc = "idle")
    /\ []((/\ result.op = "receive_until"
           /\ result.raised = "none"
           /\ result.match = <<>>) =>
              /\ result.msgs = MsgsOf(result.seen)
              /\ result.elapsed >= result.T)

\* C30 witness: a receive_until on a connection the peer had closed ran to
\* its deadline, its receive calls returning at once, and returned no match
C30_Witness ==
    /\ result.op = "receive_until"
    /\ result.raised = "none"
    /\ result.match = <<>>
    /\ result.late
    /\ result.T > 1
    /\ result.elapsed = result.T

(***************************************************************************)
(* Verbs in lower and mixed case.  A server whose stream writes its verbs  *)
(* in mixed case, and receive_until with a target of two characters, with  *)
(* a list of one name and with PING.                                       *)
(***************************************************************************)
MixedCase ==
    { <<"p", "I", "n", "G", " ", ":", "t">> \o CRLF \o <<"a">> \o CRLF
        \o <<"A", "a", " ", "b">> \o CRLF }

CaseArgs ==
    { [isStr |-> TRUE, value |-> <<"A", "A">>],
      [isStr |-> FALSE, value |-> <<<<"A">>>>],
      [isStr |-> TRUE, value |-> PING] }

ConnectCase == ConnectTo(MixedCase)

ReceiveUntilCase == ReceiveUntilWith(CaseArgs)

NextCase ==
    \/ ConnectCase
    \/ ReceiveUntilCase
    \/ ReceiveUntilStep

SpecCase == Init /\ [][NextCase]_vars

\* the verb of a line without a prefix: its first word, in upper case
Verb(raw) == IF Split(raw) = <<>> THEN <<>> ELSE UpperStr(Head(Split(raw)))

\* the command names a commands argument stands for: a string is one name
Named(commands) ==
    IF commands.isStr THEN {commands.value}
    ELSE {commands.value[i] : i \in 1..Len(commands.value)}

IsPingLine(msg) == Verb(msg.raw) = PING

\* C31: verbs are matched without regard to case: every message extracted
\* has the verb of its line in upper case as command; receive_until returns
\* as match the first message extracted whose verb, in upper case, is one of
\* the names given, a string being one name, and the messages up to it, and
\* no match when there is none; and one PONG was sent for each line whose
\* verb is PING in any case
C31_VerbsCaseInsensitive ==
    (result.op = "receive_until" /\ result.raised = "none") =>
        LET seen == MsgsOf(result.seen)
            names == Named(result.args[1])
            hits == {i \in 1..Len(seen) : Verb(seen[i].raw) \in names}
            pings == SelectSeq(seen, IsPingLine)
        IN  /\ \A i \in 1..Len(seen) : seen[i].command = Verb(seen[i].raw)
            /\ IF hits = {} THEN result.match = <<>>
               ELSE \E first \in hits :
                      /\ \A i \in hits : first <= i
                      /\ result.match = <<seen[first]>>
                      /\ result.msgs = SubSeq(seen, 1, first)
            /\ LinesOf(result.sends) =
                    [i \in 1..Len(pings) |-> PongLine(TokenOf(pings[i]))]
            /\ \A i \in 1..Len(result.sends) : result.sends[i].raised = "none"

\* C31 witness: receive_until("AA") returned the line "Aa b" as its match,
\* behind a "pInG" that was answered and an "a" that is no match
C31_Witness ==
    /\ result.op = "receive_until"
    /\ result.raised = "none"
    /\ result.args[1] = [isStr |-> TRUE, value |-> <<"A", "A">>]
    /\ Len(result.msgs) = 3
    /\ result.msgs[1].command = PING
    /\ Head(Split(result.msgs[1].raw)) # PING
    /\ result.msgs[2].command = <<"A">>
    /\ result.match = <<result.msgs[3]>>
    /\ result.msgs[3].raw = <<"A", "a", " ", "b">>
    /\ LinesOf(result.sends) = <<PongLine(<<"t">>)>>

(***************************************************************************)
(* The optional arguments of the command builders: each left out (None),   *)
(* given empty and given with a value.                                     *)
(***************************************************************************)
Optionals == {Absent, Given(<<>>), Given(<<"r">>)}

OptionalCalls ==
    {[name |-> "join", args |-> <<Channel, o>>, line |-> join(Channel, o)] : o \in Optionals}
      \cup {[name |-> "part", args |-> <<Channel, o>>, line |-> part(Channel, o)] :
                o \in Optionals}
      \cup {[name |-> "kick", args |-> <<Channel, <<"m">>, o>>,
             line |-> kick(Channel, <<"m">>, o)] : o \in Optionals}
      \cup {[name |-> "quit", args |-> <<o>>, line |-> quit(o)] : o \in Optionals}
      \cup {[name |-> "topic", args |-> <<Channel, o>>, line |-> topic(Channel, o)] :
                o \in Optionals}
      \cup {[name |-> "mode", args |-> <<Channel, f, p>>, line |-> mode(Channel, f, p)] :
                f \in Optionals, p \in Optionals}

CommandOptional == CommandOf(OptionalCalls)

NextBuild ==
    \/ ConnectOk
    \/ PeerClose
    \/ CommandOptional

SpecBuild == Init /\ [][NextBuild]_vars

\* what an optional argument adds to a line behind sep when it is given and
\* not empty, and what it adds whenever it is given
WhenNonEmpty(sep, arg) == IF arg # Absent /\ arg[1] # <<>> THEN sep \o arg[1] ELSE <<>>
WhenGiven(sep, arg) == IF arg # Absent THEN sep \o arg[1] ELSE <<>>

\* the line the builder of a call is to hand to send_raw
Expected(name, args) ==
    CASE name = "join" -> JOIN \o Sp \o args[1] \o WhenNonEmpty(Sp, args[2])
      [] name = "part" -> PART \o Sp \o args[1] \o WhenNonEmpty(Sp \o Colon, args[2])
      [] name = "kick" ->
            KICK \o Sp \o args[1] \o Sp \o args[2] \o WhenNonEmpty(Sp \o Colon, args[3])
      [] name = "quit" -> QUIT \o WhenNonEmpty(Sp \o Colon, args[1])
      [] name = "topic" -> TOPIC \o Sp \o args[1] \o WhenGiven(Sp \o Colon, args[2])
      [] name = "mode" ->
            IF args[2] = Absent THEN MODE \o Sp \o args[1]
            ELSE MODE \o Sp \o args[1] \o Sp \o args[2][1] \o WhenNonEmpty(Sp, args[3])

WithOptional == {"join", "part", "kick", "quit", "topic", "mode"}

\* C32: join sends its key, and part, kick and quit their reason behind
\* ":", only when the argument is given and not empty; topic sends ":" and
\* the topic whenever the argument is given, empty or not; mode sends the
\* target alone when flags is not given, and params only behind flags that
\* are given and only when params is not empty; the call makes one send_raw
\* of that line, which is on the wire when the send succeeds
C32_OptionalArguments ==
    result.op \in WithOptional =>
        /\ LinesOf(result.sends) = <<Expected(result.op, result.args)>>
        /\ result.raised = "none" =>
                Wire(result.sends) = Encode(Expected(result.op, result.args) \o CRLF)

\* C32 witness: topic(channel, "") put "TOPIC #c :" on the wire
C32_Witness ==
    /\ result.op = "topic"
    /\ result.args = <<Channel, Given(<<>>)>>
    /\ result.raised = "none"
    /\ Wire(result.sends) = Encode(TOPIC \o Sp \o Channel \o Sp \o Colon \o CRLF)

\* C35: whenever no operation of the User is in progress its buffer has no
\* CR followed by LF: it is empty after a connect that succeeded and after a
\* disconnect, it is as the call found it after a command builder and after
\* a connect that failed and after a receive whose read brought no bytes
C35_NoLineBetweenCalls ==
    pc = "idle" =>
        /\ Ends(buffer) = {}
        /\ result.op = "disconnect" => buffer = <<>>
        /\ (result.op = "connect" /\ result.raised = "none") => buffer = <<>>
        /\ (result.op = "connect" /\ result.raised # "none") => buffer = result.pre.buffer
        /\ result.op \in Senders => buffer = result.pre.buffer
        /\ (result.op = "receive" /\ result.got = <<>>) => buffer = result.pre.buffer

\* C35 witness: receive_until returned lines it extracted and left the
\* beginning of the next line, which has no line ending yet, in the buffer
C35_Witness ==
    /\ pc = "idle"
    /\ result.op = "receive_until"
    /\ result.msgs # <<>>
    /\ buffer # <<>>
    /\ Ends(buffer) = {}

\* C36 (as claimed): while connected is true the User holds a socket, and
\* it is one on which connect succeeded; after a connect that raised,
\* connected is false
C36_ConnectedOnConnectedSocket ==
    /\ connected => (socket # None /\ link # "fresh")
    /\ (result.op = "connect" /\ result.raised # "none") => ~connected

\* C37: when the send_raw of a nick call raises, because the User is not
\* connected or because the socket's send fails, nick raises that exception,
\* returns nothing and the nickname is the one the call found
C37_FailedNickKeepsNickname ==
    (result.op = "nick" /\ result.sends[1].raised # "none") =>
        /\ Len(result.sends) = 1
        /\ result.sends[1].message = NickLine(result.args[1])
        /\ result.raised = result.sends[1].raised
        /\ result.old = <<>>
        /\ nickname = result.was

\* C37 witness: a nick to a new name on a connected User whose socket
\* refused the send raised OSError and left the nickname
C37_Witness ==
    /\ result.op = "nick"
    /\ result.pre.connected
    /\ result.pre.socket # None
    /\ result.raised = "OSError"
    /\ result.args[1] # result.was
    /\ nickname = result.was

\* the operations that call receive
Receivers == Primitives \cup {"authenticate"}

\* C38 (as claimed): an operation leaves connected true on a User it found
\* not connected only when it is connect; it leaves connected false on a
\* User it found connected only when it is disconnect, or a receive that
\* saw the peer close or an I/O failure, the connection behind the socket
\* being closed, broken or never made; on a User that is not connected
\* every send raises ConnectionError and every receive primitive leaves
\* connected false
C38_FlagChanges ==
    pc = "idle" =>
        /\ (~result.pre.connected /\ connected) =>
                (result.op = "connect" /\ result.raised = "none")
        /\ (result.pre.connected /\ ~connected) =>
                \/ result.op = "disconnect"
                \/ /\ result.op \in Receivers
                   /\ link # "established"
                   /\ result.op = "receive" => result.net \in {"eof", "oserror"}
        /\ (result.op \in Senders /\ ~result.pre.connected) =>
                result.raised = "ConnectionError"
        /\ (result.op \in Receivers /\ ~result.pre.connected) => ~connected

(***************************************************************************)
(* BaseSuite.setup_user (irc_tester/base_suite.py): create_user, connect,  *)
(* authenticate, then either disconnect and RuntimeError or a collect of   *)
(* one second.  The position of the call is the operation that returned    *)
(* last; an exception of a call that setup_user does not catch ends it.    *)
(***************************************************************************)
\* collect(timeout=1), in ticks
DrainTimeout == 2

\* BaseSuite.create_user: a new User object, not connected
CreateUser ==
    /\ pc = "idle"
    /\ result.op \in {"init", "setup_user"}
    /\ connects < MaxConnects
    /\ socket' = NewUser(InitialNickname).socket
    /\ connected' = NewUser(InitialNickname).connected
    /\ buffer' = NewUser(InitialNickname).buffer
    /\ nickname' = NewUser(InitialNickname).nickname
    /\ link' = NewUser(InitialNickname).link
    /\ inflight' = NewUser(InitialNickname).inflight
    /\ consumed' = <<>>
    /\ extracted' = <<>>
    /\ now' = 0
    /\ result' = Result("create_user", "none", <<>>, <<>>, "none", NoFrame, 0, <<>>)
    /\ UNCHANGED <<connects, pc, frame, codec, pair>>

\* user.connect()
SetupConnect ==
    /\ result.op = "create_user"
    /\ (ConnectOk \/ ConnectFail)

\* ok, msgs = user.authenticate()
SetupAuthenticate ==
    /\ result.op = "connect"
    /\ result.raised = "none"
    /\ AuthenticateCall

\* if not ok: user.disconnect()
SetupDisconnect ==
    /\ result.op = "authenticate"
    /\ result.raised = "none"
    /\ ~result.ok
    /\ Disconnect

\* user.collect(timeout=1)
SetupCollect ==
    /\ result.op = "authenticate"
    /\ result.raised = "none"
    /\ result.ok
    /\ CollectWith({DrainTimeout})

\* how setup_user ends after the call that returned last: with the
\* exception of connect, authenticate or collect, with RuntimeError behind
\* the disconnect, or returning the User behind the collect
SetupEnds(last) ==
    IF last.raised # "none" THEN last.raised
    ELSE IF last.op = "disconnect" THEN "RuntimeError"
    ELSE "none"

SetupEnd ==
    /\ pc = "idle"
    /\ \/ result.op \in {"connect", "authenticate"} /\ result.raised # "none"
       \/ result.op \in {"disconnect", "collect"}
    /\ result' = [result EXCEPT !.op = "setup_user",
                                !.raised = SetupEnds(result),
                                !.args = <<result.op>>]
    /\ UNCHANGED <<user, net, now, connects, hist, pc, frame, codec, pair>>

NextSetup ==
    \/ CreateUser
    \/ SetupConnect
    \/ SetupAuthenticate
    \/ AuthenticateStep
    \/ SetupDisconnect
    \/ SetupCollect
    \/ CollectStep
    \/ SetupEnd
    \/ PeerClose

SpecSetup == Init /\ [][NextSetup]_vars

\* C33 (as claimed): a setup_user that returned ran its collect with a
\* timeout of one second and returns a User that is connected; a setup_user
\* that raised RuntimeError disconnected the User before; whatever a
\* setup_user that failed raised, the User it made is not connected
C33_SetupUser ==
    result.op = "setup_user" =>
        /\ result.raised = "none" =>
                /\ result.args = <<"collect">>
                /\ result.T = DrainTimeout
                /\ connected
                /\ socket # None
        /\ result.raised = "RuntimeError" =>
                /\ result.args = <<"disconnect">>
                /\ ~connected
                /\ socket = None
        /\ result.raised # "none" => ~connected

(***************************************************************************)
(* The test runner (irc_tester/base_suite.py): run_test and run_all.  A    *)
(* test callable is what it does when called: it returns a value or raises *)
(* an exception with a text.  A value that is no TestResult is its type    *)
(* and its truth value.                                                    *)
(***************************************************************************)
TestResult(name, passed, details) == [name |-> name, passed |-> passed, details |-> details]

IsTestResult(value) == DOMAIN value = {"name", "passed", "details"}

\* exception classes below Exception, and one that is only a BaseException
Exceptions == {"RuntimeError", "ConnectionError"}
Interrupts == {"KeyboardInterrupt"}

Values ==
    { TestResult("own", TRUE, "fine"), TestResult("own", FALSE, ""),
      [type |-> "NoneType", truth |-> FALSE], [type |-> "bool", truth |-> TRUE] }

Funcs ==
    {[does |-> "returns", value |-> v, exc |-> "none", text |-> ""] : v \in Values}
      \cup {[does |-> "raises", value |-> <<>>, exc |-> x, text |-> "boom"] :
                x \in Exceptions \cup Interrupts}

\* what a call returns or raises
Returns(value) == [raised |-> "none", value |-> value]
Raises(exc) == [raised |-> exc, value |-> <<>>]

\* a run_test without its try
run_test_noTry(name, func) ==
    IF func.does = "raises" THEN Raises(func.exc)
    ELSE IF IsTestResult(func.value) THEN Returns(func.value)
    ELSE Returns(TestResult(name, func.value.truth,
                            IF func.value.truth THEN "OK" ELSE "Failed"))

\* BaseSuite.run_test: "except Exception" catches what func raised when it
\* is an Exception
run_test(name, func) ==
    IF func.does = "raises"
    THEN IF func.exc \in Exceptions THEN Returns(TestResult(name, FALSE, func.text))
         ELSE Raises(func.exc)
    ELSE IF IsTestResult(func.value) THEN Returns(func.value)
    ELSE Returns(TestResult(name, func.value.truth,
                            IF func.value.truth THEN "OK" ELSE "Failed"))

\* the lists get_tests can return: the k-th entry is named <<"t", k>>
TestLists ==
    UNION {[1..n -> Funcs] : n \in 0..MaxTests}

Entries(funcs) == [k \in 1..Len(funcs) |-> [name |-> <<"t", k>>, func |-> funcs[k]]]

\* BaseSuite.run_all up to its loop
RunAllCall ==
    /\ suite.at # "loop"
    /\ \E funcs \in TestLists :
          suite' = [op |-> "run_all", at |-> "loop", tests |-> Entries(funcs), i |-> 1,
                    results |-> <<>>, printed |-> <<>>, raised |-> "none"]
    /\ UNCHANGED <<user, net, now, connects, hist, pc, frame, result, codec, users, alone,
                   returned>>

\* one turn of the loop of run_all: run_test, print, append; and its return
RunAllStep ==
    /\ suite.op = "run_all"
    /\ suite.at = "loop"
    /\ IF suite.i > Len(suite.tests)
       THEN suite' = [suite EXCEPT !.at = "returned"]
       ELSE \E r \in {run_test(suite.tests[suite.i].name, suite.tests[suite.i].func)} :
                IF r.raised # "none"
                THEN suite' = [suite EXCEPT !.at = "raised", !.raised = r.raised]
                ELSE suite' = [suite EXCEPT
                                  !.i = suite.i + 1,
                                  !.printed = Append(suite.printed,
                                                     <<r.value.passed, r.value.name,
                                                       r.value.details>>),
                                  !.results = Append(suite.results, r.value)]
    /\ UNCHANGED <<user, net, now, connects, hist, pc, frame, result, codec, users, alone,
                   returned>>

NextRunner ==
    \/ RunAllCall
    \/ RunAllStep

SpecRunner == Init /\ [][NextRunner]_vars

\* a callable that returns, or raises an Exception
Ordinary(func) == func.does = "returns" \/ func.exc \in Exceptions

\* what the claim says of the TestResult run_test gives for an entry
IsOutcomeOf(entry, r) ==
    /\ IsTestResult(r)
    /\ r.passed \in BOOLEAN
    /\ entry.func.does = "raises" =>
            /\ r.passed = FALSE
            /\ r.details = entry.func.text
            /\ r.name = entry.name
    /\ (entry.func.does = "returns" /\ IsTestResult(entry.func.value)) =>
            r = entry.func.value
    /\ (entry.func.does = "returns" /\ ~IsTestResult(entry.func.value)) =>
            /\ r.name = entry.name
            /\ r.passed = entry.func.value.truth

\* C34: as long as every callable run so far returned or raised an
\* Exception, no run_test has raised and the results are one TestResult per
\* entry run, in the order of get_tests: not passed and with the text of the
\* exception when the callable raised, the TestResult the callable returned
\* when it returned one, and one with the truth of the value otherwise;
\* a run_all that returned has one result for every entry
C34_RunnerTotal ==
    suite.op = "run_all" =>
        /\ (\A k \in 1..Len(suite.tests) : k <= suite.i => Ordinary(suite.tests[k].func)) =>
                /\ suite.raised = "none"
                /\ suite.at # "raised"
        /\ Len(suite.results) = suite.i - 1
        /\ Len(suite.results) <= Len(suite.tests)
        /\ \A k \in 1..Len(suite.results) : IsOutcomeOf(suite.tests[k], suite.results[k])
        /\ suite.at = "returned" => Len(suite.results) = Len(suite.tests)

\* C34 witness: run_all returned two results, the first for a callable that
\* raised RuntimeError and the second for one that returned True
C34_Witness ==
    /\ suite.op = "run_all"
    /\ suite.at = "returned"
    /\ Len(suite.tests) = 2
    /\ suite.tests[1].func.exc = "RuntimeError"
    /\ suite.results[1] = TestResult(<<"t", 1>>, FALSE, "boom")
    /\ suite.tests[2].func.value = [type |-> "bool", truth |-> TRUE]
    /\ suite.results[2] = TestResult(<<"t", 2>>, TRUE, "OK")

(***************************************************************************)
(* The test scenarios (single_user_suite.py, multi_user_suite.py): each    *)
(* sets up its Users one after the other, then runs its body in a try      *)
(* whose finally disconnects them.  The Users of the running scenario are  *)
(* kept in the order they were made.  What a setup_user does is decided by *)
(* the server it meets; the wait for 001 and the drain are taken by their  *)
(* outcome.                                                                *)
(***************************************************************************)
\* the server refuses the connection; accepts it and resets it, so that a
\* send of authenticate raises; accepts it and never sends 001; sends 001
\* and stays; sends 001 and closes
Servers == {"refuses", "resets", "silent", "welcomes", "departs"}

UserNames == << <<"a">>, <<"b">>, <<"c">> >>

Scenarios ==
    { [name |-> "nick_change", need |-> 1, senders |-> <<1>>],
      [name |-> "private_message", need |-> 2, senders |-> <<1>>],
      [name |-> "channel_broadcast", need |-> 3, senders |-> <<1, 2, 3, 1>>],
      [name |-> "no_self_echo", need |-> 2, senders |-> <<1, 2, 1>>] }

\* what a method call of the suite gives: the User and the exception raised
Gives(self, raised) == [user |-> self, raised |-> raised]

\* User.connect raising: the new socket is stored, nothing else is reached
User_connect_refused(self, id) == [self EXCEPT !.socket = id, !.link = "fresh"]

\* the three sends of User.authenticate on a connection that lasts for
\* lasting of them
User_register(self, lasting) ==
    UpToRaise(SendEach(AuthLines(Password, self.nickname, Username, Realname),
                       self.socket, self.connected, self.link, lasting))

\* the User behind the waits of authenticate and collect: a receive that
\* saw the peer close has cleared the flag
User_waited(self, server) ==
    IF server = "departs"
    THEN [self EXCEPT !.connected = OnPeerClose(self.connected), !.link = "peerclosed",
                      !.inflight = <<>>]
    ELSE [self EXCEPT !.inflight = <<>>]

\* BaseSuite.setup_user of the id-th User against a server
setup_user(id, server) ==
    IF server = "refuses"
    THEN Gives(User_connect_refused(NewUser(UserNames[id]), id), "OSError")
    ELSE LET made == User_connect(NewUser(UserNames[id]), id, <<>>).user
             sends == User_register(made, IF server = "resets" THEN 1 ELSE 3)
         IN  IF sends[Len(sends)].raised # "none"
             THEN Gives([made EXCEPT !.link = "reset"], sends[Len(sends)].raised)
             ELSE IF server = "silent"
             THEN Gives(User_disconnect(User_waited(made, server)).user, "RuntimeError")
             ELSE Gives(User_waited(made, server), "none")

\* the sends of the body of a scenario, in order: nick, privmsg or the
\* joins and the privmsg
BodyLine(name, k) ==
    IF name = "nick_change" THEN NickLine(<<"a", "X">>)
    ELSE IF name = "channel_broadcast" /\ k <= 3 THEN join(Channel, Absent)
    ELSE IF name = "no_self_echo" /\ k <= 2 THEN join(Channel, Absent)
    ELSE privmsg(Channel, <<"h", "i">>)

BodySends(scenario, us) ==
    UpToRaise([k \in 1..Len(scenario.senders) |->
                  send_raw(us[scenario.senders[k]].socket, us[scenario.senders[k]].connected,
                           us[scenario.senders[k]].link, BodyLine(scenario.name, k))])

\* a scenario is called
ScenarioCall ==
    /\ suite.at \notin {"setup", "body", "finally"}
    /\ \E scenario \in Scenarios :
          suite' = [op |-> "scenario", at |-> "setup", scenario |-> scenario,
                    users |-> <<>>, raised |-> "none", passed |-> FALSE, left |-> 0]
    /\ UNCHANGED <<user, net, now, connects, hist, pc, frame, result, codec, users, alone,
                   returned>>

\* the next setup_user of the scenario, in front of its try: its exception
\* is the scenario's
ScenarioSetup ==
    /\ suite.op = "scenario"
    /\ suite.at = "setup"
    /\ \E server \in Servers :
       \E r \in {setup_user(Len(suite.users) + 1, server)} :
          suite' = [suite EXCEPT
                       !.users = Append(suite.users, r.user),
                       !.raised = r.raised,
                       !.at = IF r.raised # "none" THEN "raised"
                              ELSE IF Len(suite.users) + 1 = suite.scenario.need THEN "body"
                              ELSE "setup"]
    /\ UNCHANGED <<user, net, now, connects, hist, pc, frame, result, codec, users, alone,
                   returned>>

\* the body of the try of the scenario: a send that raises ends it,
\* otherwise it comes to a verdict on what the Users received
ScenarioBody ==
    /\ suite.op = "scenario"
    /\ suite.at = "body"
    /\ \E sends \in {BodySends(suite.scenario, suite.users)} :
       \E verdict \in (IF sends[Len(sends)].raised # "none" THEN {FALSE} ELSE BOOLEAN) :
          suite' = [suite EXCEPT !.raised = sends[Len(sends)].raised,
                                 !.passed = verdict,
                                 !.at = "finally",
                                 !.left = 1]
    /\ UNCHANGED <<user, net, now, connects, hist, pc, frame, result, codec, users, alone,
                   returned>>

\* the finally of the scenario: the next disconnect; behind the last the
\* scenario returns its TestResult or raises what the body raised
ScenarioFinally ==
    /\ suite.op = "scenario"
    /\ suite.at = "finally"
    /\ suite' = [suite EXCEPT
                    !.users[suite.left] = User_disconnect(suite.users[suite.left]).user,
                    !.left = suite.left + 1,
                    !.at = IF suite.left < Len(suite.users) THEN "finally"
                           ELSE IF suite.raised # "none" THEN "raised"
                           ELSE "returned"]
    /\ UNCHANGED <<user, net, now, connects, hist, pc, frame, result, codec, users, alone,
                   returned>>

NextScenario ==
    \/ ScenarioCall
    \/ ScenarioSetup
    \/ ScenarioBody
    \/ ScenarioFinally

SpecScenario == Init /\ [][NextScenario]_vars

\* a User that holds no connection: its flag is false and it has no socket
\* other than one whose connect failed
Released(self) == ~self.connected /\ self.link \in {"none", "fresh"}

\* C39 (as claimed): when a scenario has returned or raised, every User it
\* made is disconnected, also when the setup of a later User raised
C39_ScenarioReleasesUsers ==
    (suite.op = "scenario" /\ suite.at \in {"returned", "raised"}) =>
        \A k \in 1..Len(suite.users) : Released(suite.users[k])

====
